---- MODULE Spec2Model ----
(***************************************************************************)
(* Backup orchestration engine of xo-server (backup-ng).                   *)
(*                                                                         *)
(* SpecRemote : one remote of one VM under successive remote targets of    *)
(*              _backupVm (full or delta) and deleteVmBackupNg, stepped at *)
(*              every remote file operation, with failing operations and   *)
(*              interruption of the process.                               *)
(* SpecWriter : writeStream alone, stepped at every await.                 *)
(* SpecWorker : the runs of _backupVm on one VM under the executor's VM    *)
(*              task: snapshot, deferred cleanups, targets as child tasks. *)
(* SpecExec   : the executor over the VMs of a job, workers as outcomes.   *)
(* SpecFork   : the fan-out of one export to the targets of a run.         *)
(* SpecTask   : wrapTask, wrapTaskFn and the task events they emit.        *)
(* SpecChain  : the delta remote target run after run, nothing failing.    *)
(* SpecSr     : one SR under successive SR targets of _backupVm.           *)
(* SpecStrip  : the start of _backupVm on VMs carrying backup tags.        *)
(* SpecForkExport : forkExport, the forks it hands to the targets.         *)
(* SpecList   : listVmBackupsNg on one remote.                             *)
(* SpecLogs   : the 'jobs' log and getBackupNgLogs.                        *)
(* SpecDeleteJob : deleteBackupNgJob on the jobs and schedules.            *)
(*                                                                         *)
(* Time is counted in seconds, the resolution of safeDateFormat: two runs  *)
(* on the same VM never start within the same second (runs on one VM do    *)
(* not overlap), so the basename of a run is its start time `now`.         *)
(*                                                                         *)
(* File names in a directory are integers: the file of basename t is t,    *)
(* its dotted temporary file .t is -t ("." sorts before every digit).      *)
(***************************************************************************)
EXTENDS Integers, Sequences, FiniteSets, TLC

VARIABLES
    \* ---- a remote (SpecRemote) ----
    now,        \* Date.now() of the latest run, in seconds
    jobMode,    \* job.mode
    jsons,      \* metadata sidecars of the VM directory
    xvas,       \* names of the .xva files of the VM directory
    vhds,       \* vdi -> the VHD files of vdis/<job>/<vdi>/
    tpc,        \* position of the remote target / of deleteVmBackupNg;
                \* "stopped" once the process has been interrupted
    op,         \* "run" (remote target of _backupVm) or "delete" (deleteVmBackupNg)
    run,        \* the settings of the current run
    listed,     \* result of _listVmBackups in the current run
    oldBackups, \* getOldEntries(exportRetention, listed)
    wr,         \* payload -> position of its writeStream / chainVhd
    dels,       \* the pending unlink / _deleteVhd calls of a deletion
    faults,     \* number of failed remote operations and interruptions so far
    \* ---- writeStream (SpecWriter) ----
    files,      \* the files of the directory of the written path
    ws,         \* the current call of writeStream
    \* ---- _backupVm on one VM (SpecWorker) ----
    vmSnapshots, \* vm.$snapshots: the snapshots of the VM on the hypervisor
    wk,         \* the current call of _backupVm
    tasks,      \* status of the VM task and of its child 'export' tasks
    \* ---- executor (SpecExec) ----
    ex,         \* the current call of the executor and its VM tasks
    \* ---- fan-out of the export (SpecFork) ----
    fk,         \* the export stream, its forks and the targets reading them
    \* ---- task wrappers (SpecTask) ----
    tk,         \* the current wrapped operation and the log of task events
    \* ---- an SR (SpecSr) ----
    sr,         \* the VMs of the pool of the SR and the current SR target
    \* ---- the tags of the live VMs (SpecStrip) ----
    st,         \* vm -> its other_config keys and the start of its _backupVm
    \* ---- forkExport (SpecForkExport) ----
    fx,         \* the export of a run and the forks handed to its targets
    \* ---- listVmBackupsNg (SpecList) ----
    ls,         \* a remote and the current listing of its backups
    \* ---- getBackupNgLogs (SpecLogs) ----
    lg,         \* the 'jobs' log and its consolidation
    \* ---- deleteBackupNgJob (SpecDeleteJob) ----
    dj          \* the jobs and schedules of xo-server and the current call

rvars == <<now, jobMode, jsons, xvas, vhds, tpc, op, run, listed, oldBackups,
           wr, dels>>
svars == <<files, ws>>
wvars == <<vmSnapshots, wk, tasks>>
evars == <<ex>>
qvars == <<st, fx, ls, lg, dj>>
hvars == <<fk, tk, sr, qvars>>

vars == <<rvars, faults, svars, wvars, evars, hvars>>

(***************************************************************************)
(* Bounds                                                                  *)
(***************************************************************************)
MaxRuns == 3
MaxRetention == 2
MaxFaults == 1
NumSchedules == 1
NumPaths == 2
NumTargets == 2
NumVms == 3
NumChunks == 2
HighWaterMark == 1
MaxTasks == 2
ChainRetention == 3
ChainRuns == 5

\* the disks of the VM: one VDI directory on the remote
Vdis == {1}
Schedules == 1..NumSchedules
Modes == {"full", "delta"}

Min(a, b) == IF a < b THEN a ELSE b
Max(a, b) == IF a < b THEN b ELSE a

(***************************************************************************)
(* Pure helpers                                                            *)
(***************************************************************************)
\* a plausible slip: the comparison is reversed
RECURSIVE SortByTimestampDescending(_)
SortByTimestampDescending(S) ==
    IF S = {} THEN <<>>
    ELSE LET m == CHOOSE x \in S : \A y \in S : x.ts >= y.ts
         IN <<m>> \o SortByTimestampDescending(S \ {m})

\* compareTimestamp: the sidecars of S in ascending timestamp order
RECURSIVE SortByTimestamp(_)
SortByTimestamp(S) ==
    IF S = {} THEN <<>>
    ELSE LET m == CHOOSE x \in S : \A y \in S : x.ts <= y.ts
         IN <<m>> \o SortByTimestamp(S \ {m})

Range(s) == {s[i] : i \in 1..Len(s)}

\* entries.slice(0, -n) for n > 0
SliceDropLast(entries, n) == SubSeq(entries, 1, Len(entries) - n)

\* a plausible slip: the "-1" for the entry about to be written is forgotten
GetOldEntriesKeepOneMore(retention, entries) ==
    IF retention > 0 THEN SliceDropLast(entries, retention) ELSE entries

\* a plausible reading: nothing is old when the retention is below one
GetOldEntriesNoneBelowOne(retention, entries) ==
    IF retention < 1 THEN <<>>
    ELSE IF retention - 1 > 0 THEN SliceDropLast(entries, retention - 1) ELSE entries

\* getOldEntries: all entries but the last (retention - 1); an undefined list
\* is the empty list here, for which the result is empty as well
GetOldEntries(retention, entries) ==
    IF retention - 1 > 0 THEN SliceDropLast(entries, retention - 1) ELSE entries

(***************************************************************************)
(* Files of a VDI directory                                                *)
(*   name   : integer name (t, or -t for the temporary .t)                 *)
(*   kind   : "full" or "delta" (footer.diskType)                          *)
(*   parent : header.parentUnicodeName as a name, 0 when it names no file  *)
(*            of the directory (empty, or the hypervisor's own name)       *)
(*   layers : the runs whose blocks the file holds                         *)
(***************************************************************************)
Names(dir) == {f.name : f \in dir}
File(dir, n) == CHOOSE f \in dir : f.name = n
IsTmp(n) == n < 0

\* handler.unlink(path)
UnlinkFile(dir, n) == {f \in dir : f.name # n}

\* handler.rename(from, to): replaces whatever is at `to`
RenameFile(dir, from, to) ==
    {f \in dir : f.name \notin {from, to}}
        \cup {[File(dir, from) EXCEPT !.name = to]}

\* mergeVhd(parent, child): the blocks of the child are coalesced into the
\* file of the parent, which keeps its own header
MergeInto(dir, p, c) ==
    {f \in dir : f.name # p}
        \cup {[File(dir, p) EXCEPT !.layers = @ \cup File(dir, c).layers]}

\* chainVhd(parentPath, path): the child's parent locator names the parent
ChainTo(dir, p, c) ==
    {f \in dir : f.name # c} \cup {[File(dir, c) EXCEPT !.parent = p]}

\* a plausible slip: the sorted list is taken from its other end
FirstVhd(dir) ==
    IF dir = {} THEN 0
    ELSE CHOOSE n \in Names(dir) : \A m \in Names(dir) : n <= m

\* (await handler.list(vdiDir)).filter(isVhd).sort().pop(); 0 is `undefined`
LastVhd(dir) ==
    IF dir = {} THEN 0
    ELSE CHOOSE n \in Names(dir) : \A m \in Names(dir) : m <= n

\* a plausible slip: any other delta of the directory is taken for the child
ChildrenAnyDelta(dir, n) == {f.name : f \in {g \in dir : g.kind = "delta" /\ g.name # n}}

\* vhds.find(_ => _.header.parentUnicodeName === base): the candidates
Children(dir, n) == {f.name : f \in {g \in dir : g.kind = "delta" /\ g.parent = n}}


(***************************************************************************)
(* SpecRemote: state after construction                                    *)
(***************************************************************************)
NoRun == [eR |-> 0, sched |-> 0, deleteFirst |-> FALSE, isDelta |-> FALSE]

\* no call of writeStream
NoWrite ==
    [pc |-> "idle", path |-> 0, checksum |-> FALSE, done |-> {},
     failed |-> "none", unlinked |-> FALSE, before |-> {}, n |-> 0,
     error |-> "none", streamError |-> FALSE]

\* no call of _backupVm
NoWorker ==
    [pc |-> "idle", n |-> 0, eR |-> 0, sR |-> 0, sched |-> 0, targets |-> {},
     snapshots |-> {}, snapshot |-> 0, defers |-> <<>>, threw |-> FALSE,
     error |-> "none", cleanupFailed |-> FALSE]

NoTasks == [vm |-> "none", targets |-> <<>>]

\* no call of the executor
NoExecutor ==
    [pc |-> "idle", error |-> "none", vms |-> <<>>, vmTimeout |-> <<>>,
     cancelled |-> {}, timedOut |-> {}, active |-> {}]

\* no export being fanned out
NoFork == [pc |-> "idle", sent |-> 0, forks |-> <<>>]

\* no wrapped operation, an empty log
NoWrap == [log |-> <<>>, calls |-> <<>>]

\* the variables of the other specifications, at rest
\* no SR target: no VM in the pool of the SR
NoSr ==
    [pc |-> "idle", n |-> 0, vms |-> {}, eR |-> 0, sched |-> 0,
     deleteFirst |-> FALSE, listed |-> {}, oldVms |-> {}, dels |-> {},
     vm |-> 0, pending |-> {}, failed |-> FALSE]

\* no VM whose tags are followed
NoStrip == <<>>

\* no export opened
NoForkExport ==
    [pc |-> "idle", mode |-> "full", n |-> 0, opened |-> 0, started |-> <<>>,
     made |-> 0, pool |-> <<>>, got |-> <<>>, thrown |-> {}]

\* no remote being listed
NoList == [pc |-> "idle", root |-> FALSE, dirs |-> <<>>, pending |-> {},
           result |-> <<>>]

\* an empty 'jobs' log, not consolidated
NoLogs == [pc |-> "logging", raw |-> <<>>, runId |-> 0, out |-> <<>>]

\* no job, no schedule, no call
NoDeleteJob == [pc |-> "idle", id |-> 0, jobs |-> {}, schedules |-> {},
                listed |-> {}]

QAtRest ==
    /\ st = NoStrip /\ fx = NoForkExport /\ ls = NoList /\ lg = NoLogs
    /\ dj = NoDeleteJob

WriterAtRest == files = {} /\ ws = NoWrite
WorkerAtRest == vmSnapshots = {} /\ wk = NoWorker /\ tasks = NoTasks
ExecutorAtRest == ex = NoExecutor

InitRemote ==
    /\ QAtRest
    /\ fk = NoFork
    /\ tk = NoWrap
    /\ sr = NoSr
    /\ WriterAtRest
    /\ WorkerAtRest
    /\ ExecutorAtRest
    /\ now = 0
    /\ jobMode \in Modes
    /\ jsons = {}
    /\ xvas = {}
    /\ vhds = [d \in Vdis |-> {}]
    /\ tpc = "idle"
    /\ op = "none"
    /\ run = NoRun
    /\ listed = {}
    /\ oldBackups = {}
    /\ wr = <<>>
    /\ dels = {}
    /\ faults = 0

\* a remote operation fails (the remote is unavailable, the worker reports an error)
Fails == faults < MaxFaults /\ faults' = faults + 1
Succeeds == faults' = faults

\* the sidecar written by the current run
NewSidecar == [ts |-> now, mode |-> jobMode, sched |-> run.sched]

\* a plausible slip: the sidecar of the run counts among the listed backups
MatchingWithNew(S) ==
    {j \in S \cup {NewSidecar} : j.mode = jobMode /\ j.sched = run.sched}

\* _ => _.mode === mode && _.scheduleId === scheduleId
Matching(S) == {j \in S : j.mode = jobMode /\ j.sched = run.sched}

\* a plausible slip: the test of the retention is missing in delta mode
DeleteFirstAsSet(exportRetention, setting) == setting

\* const deleteFirst of the target, from the setting of the remote:
\* full: getSetting(settings, 'deleteFirst', remoteId)
\* delta: exportRetention > 1 && getSetting(settings, 'deleteFirst', remoteId)
DeleteFirst(exportRetention, setting) ==
    IF jobMode = "full" THEN setting
    ELSE exportRetention > 1 /\ setting

\* _deleteFullVmBackups / _deleteDeltaVmBackups: the calls started for one backup
DelProcsOf(b) ==
    {[b |-> b.ts, kind |-> "json", vdi |-> 0, pc |-> "unlink", child |-> 0]}
    \cup (IF b.mode = "full"
          THEN {[b |-> b.ts, kind |-> "xva", vdi |-> 0, pc |-> "unlink", child |-> 0]}
          ELSE {[b |-> b.ts, kind |-> "vhd", vdi |-> d, pc |-> "list", child |-> 0]
                    : d \in Vdis})

DelProcs(B) == UNION {DelProcsOf(b) : b \in B}

\* the writers of the payloads of the run: the .xva (payload 0) or one VHD per VDI
InitWriters ==
    IF jobMode = "full"
    THEN [k \in {0} |-> [pc |-> "create", parent |-> 0]]
    ELSE [k \in Vdis |-> [pc |-> IF run.isDelta THEN "list" ELSE "create",
                          parent |-> 0]]

Settled(p) == p.pc \in {"ok", "failed"}
WSettled(k) == wr[k].pc \in {"ok", "err"}

(***************************************************************************)
(* The remote target of _backupVm                                          *)
(***************************************************************************)
\* a run reaches the remote target: exportRetention > 0, Date.now()
StartTarget(k, s, df, isd) ==
    /\ tpc = "idle"
    /\ now < MaxRuns
    /\ now' = now + 1
    /\ op' = "run"
    /\ run' = [eR |-> k, sched |-> s, deleteFirst |-> DeleteFirst(k, df),
               isDelta |-> (jobMode = "delta" /\ isd)]
    /\ tpc' = "list"
    /\ UNCHANGED <<jobMode, jsons, xvas, vhds, listed, oldBackups, wr, dels, faults>>

\* getRemoteHandler, _listVmBackups, getOldEntries, then deleteFirst or transfer
ListBackups ==
    /\ tpc = "list"
    /\ LET l == Matching(jsons)
           old == Range(GetOldEntries(run.eR, SortByTimestamp(l)))
       IN /\ listed' = l
          /\ oldBackups' = old
          /\ IF run.deleteFirst
             THEN tpc' = "deleteFirst" /\ dels' = DelProcs(old) /\ wr' = wr
             ELSE tpc' = "transfer" /\ wr' = InitWriters /\ dels' = dels
    /\ UNCHANGED <<now, jobMode, jsons, xvas, vhds, op, run, faults>>

ListBackupsFails ==
    /\ tpc = "list"
    /\ Fails
    /\ tpc' = "failed"
    /\ UNCHANGED <<now, jobMode, jsons, xvas, vhds, op, run, listed, oldBackups,
                   wr, dels>>

SetProc(p, pc) == dels' = (dels \ {p}) \cup {[p EXCEPT !.pc = pc]}

\* handler.unlink(_filename)
UnlinkJson(p) ==
    /\ p.kind = "json" /\ p.pc = "unlink"
    /\ \/ /\ \E j \in jsons : j.ts = p.b
          /\ jsons' = {j \in jsons : j.ts # p.b}
          /\ SetProc(p, "ok") /\ Succeeds
       \/ /\ jsons' = jsons
          /\ SetProc(p, "failed") /\ Fails
    /\ UNCHANGED <<now, jobMode, xvas, vhds, tpc, op, run, listed, oldBackups,
                   wr>>

\* handler.unlink(resolveRelativeFromFile(_filename, xva)); ENOENT when missing
UnlinkXva(p) ==
    /\ p.kind = "xva" /\ p.pc = "unlink"
    /\ \/ /\ p.b \in xvas
          /\ xvas' = xvas \ {p.b}
          /\ SetProc(p, "ok") /\ Succeeds
       \/ /\ p.b \notin xvas
          /\ xvas' = xvas
          /\ SetProc(p, "failed") /\ Succeeds
       \/ /\ xvas' = xvas
          /\ SetProc(p, "failed") /\ Fails
    /\ UNCHANGED <<now, jobMode, jsons, vhds, tpc, op, run, listed, oldBackups,
                   wr>>

\* _deleteVhd: handler.list, readHeaderAndFooter of every VHD, find the child
DeleteVhdList(p) ==
    /\ p.kind = "vhd" /\ p.pc = "list"
    /\ LET ch == Children(vhds[p.vdi], p.b)
       IN \/ /\ ch = {}
             /\ SetProc(p, "unlink") /\ Succeeds
          \/ /\ \E c \in ch :
                   dels' = (dels \ {p}) \cup {[p EXCEPT !.pc = "merge", !.child = c]}
             /\ Succeeds
          \/ SetProc(p, "failed") /\ Fails
    /\ UNCHANGED <<now, jobMode, jsons, xvas, vhds, tpc, op, run, listed,
                   oldBackups, wr>>

\* _deleteVhd: no child, return handler.unlink(path); ENOENT when missing
DeleteVhdUnlink(p) ==
    /\ p.kind = "vhd" /\ p.pc = "unlink"
    /\ \/ /\ p.b \in Names(vhds[p.vdi])
          /\ vhds' = [vhds EXCEPT ![p.vdi] = UnlinkFile(@, p.b)]
          /\ SetProc(p, "ok") /\ Succeeds
       \/ /\ p.b \notin Names(vhds[p.vdi])
          /\ vhds' = vhds
          /\ SetProc(p, "failed") /\ Succeeds
       \/ /\ vhds' = vhds
          /\ SetProc(p, "failed") /\ Fails
    /\ UNCHANGED <<now, jobMode, jsons, xvas, tpc, op, run, listed, oldBackups,
                   wr>>

\* mergeVhd can work: both files exist and the child is a differencing disk
Mergeable(dir, p, c) ==
    /\ {p, c} \subseteq Names(dir)
    /\ File(dir, c).kind = "delta"

\* _deleteVhd: worker.mergeVhd(path, childPath)
DeleteVhdMerge(p) ==
    /\ p.kind = "vhd" /\ p.pc = "merge"
    /\ \/ /\ Mergeable(vhds[p.vdi], p.b, p.child)
          /\ vhds' = [vhds EXCEPT ![p.vdi] = MergeInto(@, p.b, p.child)]
          /\ SetProc(p, "rename") /\ Succeeds
       \/ /\ ~Mergeable(vhds[p.vdi], p.b, p.child)
          /\ vhds' = vhds
          /\ SetProc(p, "cleanup") /\ Succeeds
       \/ /\ vhds' = vhds
          /\ SetProc(p, "cleanup") /\ Fails
    /\ UNCHANGED <<now, jobMode, jsons, xvas, tpc, op, run, listed, oldBackups,
                   wr>>

\* _deleteVhd: handler.rename(path, childPath)
DeleteVhdRename(p) ==
    /\ p.kind = "vhd" /\ p.pc = "rename"
    /\ \/ /\ p.b \in Names(vhds[p.vdi])
          /\ vhds' = [vhds EXCEPT ![p.vdi] = RenameFile(@, p.b, p.child)]
          /\ SetProc(p, "ok") /\ Succeeds
       \/ /\ vhds' = vhds
          /\ SetProc(p, "cleanup") /\ Fails
    /\ UNCHANGED <<now, jobMode, jsons, xvas, tpc, op, run, listed, oldBackups,
                   wr>>

\* _deleteVhd: $defer.onFailure.call(handler, 'unlink', path)
DeleteVhdOnFailure(p) ==
    /\ p.kind = "vhd" /\ p.pc = "cleanup"
    /\ \/ vhds' = [vhds EXCEPT ![p.vdi] = UnlinkFile(@, p.b)] /\ Succeeds
       \/ vhds' = vhds /\ Fails
    /\ SetProc(p, "failed")
    /\ UNCHANGED <<now, jobMode, jsons, xvas, tpc, op, run, listed, oldBackups,
                   wr>>

DeleteVhdStep(p) ==
    \/ DeleteVhdList(p)
    \/ DeleteVhdUnlink(p)
    \/ DeleteVhdMerge(p)
    \/ DeleteVhdRename(p)
    \/ DeleteVhdOnFailure(p)

\* every call of the deletion has settled
DeletionSettled ==
    /\ tpc \in {"deleteFirst", "deleteAfter", "userDelete"}
    /\ \A p \in dels : Settled(p)
    /\ dels' = {}
    /\ IF \E p \in dels : p.pc = "failed"
       THEN tpc' = "failed" /\ wr' = wr
       ELSE IF tpc = "deleteFirst"
            THEN tpc' = "transfer" /\ wr' = InitWriters
            ELSE tpc' = "done" /\ wr' = wr
    /\ UNCHANGED <<now, jobMode, jsons, xvas, vhds, op, run, listed, oldBackups, faults>>

(***************************************************************************)
(* writeStream and chainVhd of one payload k of the run                    *)
(*   payload 0: <now>.xva; payload d in Vdis: vdis/<job>/<d>/<now>.vhd     *)
(***************************************************************************)
SetWr(k, pc) == wr' = [wr EXCEPT ![k].pc = pc]

\* the file written by exportDeltaVm for a VDI, before any chaining
Exported(n) ==
    [name |-> n, kind |-> IF run.isDelta THEN "delta" ELSE "full",
     parent |-> 0, layers |-> {now}]

\* isDelta: (await handler.list(vdiDir)).filter(isVhd).sort().pop()
FindParent(k) ==
    /\ tpc = "transfer" /\ k \in DOMAIN wr /\ wr[k].pc = "list"
    /\ \/ /\ wr' = [wr EXCEPT ![k] = [pc |-> "create", parent |-> LastVhd(vhds[k])]]
          /\ Succeeds
       \/ SetWr(k, "err") /\ Fails
    /\ UNCHANGED <<now, jobMode, jsons, xvas, vhds, tpc, op, run, listed,
                   oldBackups, dels>>

\* writeStream: handler.createOutputStream(tmpPath), outside the try
WriteCreate(k) ==
    /\ tpc = "transfer" /\ k \in DOMAIN wr /\ wr[k].pc = "create"
    /\ \/ /\ SetWr(k, "pipe") /\ Succeeds
          /\ IF k = 0
             THEN /\ (0 - now) \notin xvas
                  /\ xvas' = xvas \cup {0 - now}
                  /\ vhds' = vhds
             ELSE /\ (0 - now) \notin Names(vhds[k])
                  /\ vhds' = [vhds EXCEPT ![k] = @ \cup {Exported(0 - now)}]
                  /\ xvas' = xvas
       \/ SetWr(k, "err") /\ Fails /\ UNCHANGED <<xvas, vhds>>
    /\ UNCHANGED <<now, jobMode, jsons, tpc, op, run, listed, oldBackups, dels>>

\* writeStream: pipe, 'finish', checksumWritten, input.task
WritePipe(k) ==
    /\ tpc = "transfer" /\ k \in DOMAIN wr /\ wr[k].pc = "pipe"
    /\ \/ SetWr(k, "rename") /\ Succeeds
       \* the output stream fails
       \/ SetWr(k, "unlink") /\ Fails
       \* input.task rejects: the export failed on the side of the hypervisor
       \/ SetWr(k, "unlink") /\ Succeeds
    /\ UNCHANGED <<now, jobMode, jsons, xvas, vhds, tpc, op, run, listed,
                   oldBackups, dels>>

\* after writeStream: chainVhd when the export is a delta
AfterWrite(k) == IF k # 0 /\ run.isDelta THEN "chain" ELSE "ok"

\* writeStream: handler.rename(tmpPath, path)
WriteRename(k) ==
    /\ tpc = "transfer" /\ k \in DOMAIN wr /\ wr[k].pc = "rename"
    /\ \/ /\ SetWr(k, AfterWrite(k)) /\ Succeeds
          /\ IF k = 0
             THEN /\ xvas' = (xvas \ {0 - now}) \cup {now}
                  /\ vhds' = vhds
             ELSE /\ vhds' = [vhds EXCEPT ![k] = RenameFile(@, 0 - now, now)]
                  /\ xvas' = xvas
       \/ SetWr(k, "unlink") /\ Fails /\ UNCHANGED <<xvas, vhds>>
    /\ UNCHANGED <<now, jobMode, jsons, tpc, op, run, listed, oldBackups, dels>>

\* writeStream, catch: handler.unlink(tmpPath), which may itself fail; throw
WriteUnlinkTmp(k) ==
    /\ tpc = "transfer" /\ k \in DOMAIN wr /\ wr[k].pc = "unlink"
    /\ SetWr(k, "err")
    /\ \/ /\ Succeeds
          /\ IF k = 0
             THEN xvas' = xvas \ {0 - now} /\ vhds' = vhds
             ELSE vhds' = [vhds EXCEPT ![k] = UnlinkFile(@, 0 - now)] /\ xvas' = xvas
       \/ Fails /\ UNCHANGED <<xvas, vhds>>
    /\ UNCHANGED <<now, jobMode, jsons, tpc, op, run, listed, oldBackups, dels>>

\* chainVhd(handler, parentPath, handler, path): reads the parent, which must exist
ChainVhd(k) ==
    /\ tpc = "transfer" /\ k \in DOMAIN wr /\ wr[k].pc = "chain"
    /\ \/ /\ wr[k].parent \in Names(vhds[k])
          /\ vhds' = [vhds EXCEPT ![k] = ChainTo(@, wr[k].parent, now)]
          /\ SetWr(k, "ok") /\ Succeeds
       \/ /\ wr[k].parent \notin Names(vhds[k])
          /\ vhds' = vhds
          /\ SetWr(k, "dunlink") /\ Succeeds
       \/ /\ vhds' = vhds
          /\ SetWr(k, "dunlink") /\ Fails
    /\ UNCHANGED <<now, jobMode, jsons, xvas, tpc, op, run, listed, oldBackups,
                   dels>>

\* per VDI: $defer.onFailure.call(handler, 'unlink', path)
ChainOnFailure(k) ==
    /\ tpc = "transfer" /\ k \in DOMAIN wr /\ wr[k].pc = "dunlink"
    /\ SetWr(k, "err")
    /\ \/ vhds' = [vhds EXCEPT ![k] = UnlinkFile(@, now)] /\ Succeeds
       \/ vhds' = vhds /\ Fails
    /\ UNCHANGED <<now, jobMode, jsons, xvas, tpc, op, run, listed, oldBackups,
                   dels>>

WriterStep(k) ==
    \/ FindParent(k)
    \/ WriteCreate(k)
    \/ WritePipe(k)
    \/ WriteRename(k)
    \/ WriteUnlinkTmp(k)
    \/ ChainVhd(k)
    \/ ChainOnFailure(k)

\* a plausible slip: the outcome of the transfer is not looked at
TransferOutcomeIgnored == "sidecar"

\* await wrapTask(..., writeStream / asyncMap(...)): throws if a payload failed
TransferOutcome ==
    IF \E k \in DOMAIN wr : wr[k].pc = "err" THEN "failed" ELSE "sidecar"

\* every payload has settled
TransferSettled ==
    /\ tpc = "transfer"
    /\ \A k \in DOMAIN wr : WSettled(k)
    /\ tpc' = TransferOutcome
    /\ wr' = <<>>
    /\ UNCHANGED <<now, jobMode, jsons, xvas, vhds, op, run, listed, oldBackups,
                   dels, faults>>

\* handler.outputFile(metadataFilename, jsonMetadata), then the old backups
WriteSidecar ==
    /\ tpc = "sidecar"
    /\ \/ /\ jsons' = jsons \cup {NewSidecar}
          /\ Succeeds
          /\ IF run.deleteFirst
             THEN tpc' = "done" /\ dels' = dels
             ELSE tpc' = "deleteAfter" /\ dels' = DelProcs(oldBackups)
       \/ /\ tpc' = "failed"
          /\ Fails
          /\ UNCHANGED <<jsons, dels>>
    /\ UNCHANGED <<now, jobMode, xvas, vhds, op, run, listed, oldBackups, wr>>

\* the export task of the target has ended (task.end success or failure)
FinishTarget ==
    /\ tpc \in {"done", "failed"}
    /\ tpc' = "idle"
    /\ op' = "none"
    /\ run' = NoRun
    /\ listed' = {}
    /\ oldBackups' = {}
    /\ wr' = <<>>
    /\ dels' = {}
    /\ UNCHANGED <<now, jobMode, jsons, xvas, vhds, faults>>

\* deleteVmBackupNg(id): _deleteDeltaVmBackups / _deleteFullVmBackups of one backup
DeleteVmBackupNg(b) ==
    /\ tpc = "idle"
    /\ b \in jsons
    /\ tpc' = "userDelete"
    /\ op' = "delete"
    /\ dels' = DelProcsOf(b)
    /\ UNCHANGED <<now, jobMode, jsons, xvas, vhds, run, listed, oldBackups, wr, faults>>

\* the process stops at an await of the run or of the deletion: what the
\* process held is lost, the remote keeps its files as they are
Interrupt ==
    /\ tpc \notin {"idle", "done", "failed", "stopped"}
    /\ tpc' = "stopped"
    /\ run' = NoRun
    /\ listed' = {}
    /\ oldBackups' = {}
    /\ wr' = <<>>
    /\ dels' = {}
    /\ UNCHANGED <<now, jobMode, jsons, xvas, vhds, op, faults>>

RemoteOnly == UNCHANGED <<svars, wvars, evars, hvars>>

NextRemote ==
    \/ /\ \E k \in 1..MaxRetention, s \in Schedules, df \in BOOLEAN, isd \in BOOLEAN :
             StartTarget(k, s, df, isd)
       /\ RemoteOnly
    \/ ListBackups /\ RemoteOnly
    \/ ListBackupsFails /\ RemoteOnly
    \/ (\E p \in dels : UnlinkJson(p)) /\ RemoteOnly
    \/ (\E p \in dels : UnlinkXva(p)) /\ RemoteOnly
    \/ (\E p \in dels : DeleteVhdStep(p)) /\ RemoteOnly
    \/ DeletionSettled /\ RemoteOnly
    \/ (\E k \in DOMAIN wr : WriterStep(k)) /\ RemoteOnly
    \/ TransferSettled /\ RemoteOnly
    \/ WriteSidecar /\ RemoteOnly
    \/ FinishTarget /\ RemoteOnly
    \/ (\E b \in jsons : DeleteVmBackupNg(b)) /\ RemoteOnly
    \/ Interrupt /\ RemoteOnly

SpecRemote == InitRemote /\ [][NextRemote]_vars

(***************************************************************************)
(* Properties of a remote                                                  *)
(***************************************************************************)
\* the payload files a sidecar references exist under their final names
PayloadsPresent(j) ==
    IF j.mode = "full" THEN j.ts \in xvas
    ELSE \A d \in Vdis : j.ts \in Names(vhds[d])

\* no payload of basename t is still under its dotted temporary name
NoTemporary(t) ==
    /\ (0 - t) \notin xvas
    /\ \A d \in Vdis : (0 - t) \notin Names(vhds[d])

TargetSucceeded == tpc = "done" /\ op = "run"

\* C1: after a successful remote target with exportRetention = k and n matching
\* sidecars before it, min(k, n + 1) matching sidecars remain on the remote, and
\* they are the most recent ones of the n prior ones and the new one.
C1_RetentionKeepsMostRecent ==
    TargetSucceeded =>
        LET kept == Matching(jsons)
            all == listed \cup {NewSidecar}
        IN /\ Cardinality(kept) = Min(run.eR, Cardinality(listed) + 1)
           /\ kept \subseteq all
           /\ \A m \in kept : \A j \in all \ kept : j.ts < m.ts

C1_Witness ==
    /\ TargetSucceeded
    /\ run.eR >= 2
    /\ Cardinality(listed) >= run.eR
    /\ NewSidecar \in jsons

\* C2: wherever a run is interrupted (during the transfer, the sidecar write or
\* the deletion of old backups), every sidecar on the remote references payload
\* files that exist under their final names.
C2_SidecarPayloadsExist ==
    (tpc = "stopped" /\ op = "run") => \A j \in jsons : PayloadsPresent(j)

\* C3: the step that writes the sidecar of a run is taken only when every
\* payload of the run has been renamed from its temporary to its final name.
C3_RenameBeforeSidecar ==
    [][(NewSidecar \notin jsons /\ NewSidecar \in jsons')
          => (PayloadsPresent(NewSidecar) /\ NoTemporary(now))]_vars

C3_Witness ==
    /\ TargetSucceeded
    /\ jobMode = "delta"
    /\ run.isDelta
    /\ NewSidecar \in jsons
    /\ PayloadsPresent(NewSidecar)

\* the parent named by a VHD is a VHD of the directory
ParentPresent(f, dir) == f.parent \in Names(dir) \ {f.name}

Quiescent == tpc = "idle"

\* C5 (I1): after any sequence of runs and deletions, every VHD is a full VHD or
\* a delta whose parent is another VHD of the same directory.
C5_NoDanglingParent ==
    Quiescent =>
        \A d \in Vdis : \A f \in vhds[d] :
            f.kind = "full" \/ ParentPresent(f, vhds[d])

\* C5, its particular case: no VHD that was chained onto a parent is left with
\* that parent gone.
C5_NoChildOfDeletedParent ==
    Quiescent =>
        \A d \in Vdis : \A f \in vhds[d] :
            f.parent # 0 => ParentPresent(f, vhds[d])

\* what a step of _deleteVhd(path) on process p may change
DeleteVhdFrame(p) ==
    LET d == p.vdi
        q == CHOOSE x \in dels' : x.b = p.b /\ x.kind = p.kind /\ x.vdi = p.vdi
        touched == {p.b, q.child}
    IN /\ jsons' = jsons
       /\ xvas' = xvas
       /\ \A e \in Vdis \ {d} : vhds'[e] = vhds[e]
       /\ \A f \in vhds[d] : f.name \notin touched => f \in vhds'[d]
       /\ \A f \in vhds'[d] : f.name \notin touched => f \in vhds[d]
       \* the child is a VHD whose parentUnicodeName is basename(path)
       /\ (p.pc = "list" /\ q.child # 0) =>
              /\ q.child \in Names(vhds[d])
              /\ File(vhds[d], q.child).parent = p.b
       \* no child: path is unlinked and nothing else
       /\ (p.pc = "unlink" /\ q.pc = "ok") =>
              /\ p.child = 0
              /\ vhds'[d] = vhds[d] \ {File(vhds[d], p.b)}
       \* a child: only path changes during the merge
       /\ (p.pc = "merge") =>
              \A f \in vhds[d] : f.name # p.b => f \in vhds'[d]
       \* then path is renamed onto the child's path
       /\ (p.pc = "rename" /\ q.pc = "ok") =>
              /\ p.b \notin Names(vhds'[d])
              /\ File(vhds'[d], p.child) = [File(vhds[d], p.b) EXCEPT !.name = p.child]

\* C6: _deleteVhd(path) changes only the file at path and the child whose
\* parentUnicodeName is basename(path); every other file is left as it was.
C6_DeleteVhdFrame ==
    [][\A p \in dels : (p.kind = "vhd" /\ DeleteVhdStep(p)) => DeleteVhdFrame(p)]_vars

C6_Witness ==
    /\ \E p \in dels : p.kind = "vhd" /\ p.pc = "ok" /\ p.child # 0
    /\ \E d \in Vdis : Cardinality(vhds[d]) >= 2

\* C13: when the remote target of a run has failed, the remote holds no
\* sidecar and no payload file (final or temporary) written by that run.
C13_FailedTargetLeavesNothing ==
    (tpc = "failed" /\ op = "run") =>
        /\ \A j \in jsons : j.ts # now
        /\ now \notin xvas
        /\ \A d \in Vdis : now \notin Names(vhds[d])
        /\ NoTemporary(now)

\* C21: the old backups a run selects and deletes come from the listing taken
\* before its write: the sidecar of the run is never among them, and after a
\* successful target the sidecar and the payloads of the run are on the remote.
C21_NewBackupNeverDeleted ==
    /\ op = "run" =>
          /\ \A b \in listed \cup oldBackups : b.ts < now
          /\ \A p \in dels : p.b < now
    /\ TargetSucceeded => NewSidecar \in jsons /\ PayloadsPresent(NewSidecar)

C21_Witness ==
    /\ TargetSucceeded
    /\ run.eR = 1
    /\ oldBackups # {}
    /\ oldBackups \cap jsons = {}
    /\ NewSidecar \in jsons

C24_MergesSerialized ==
    \A p, q \in dels :
        (/\ p.kind = "vhd" /\ q.kind = "vhd"
         /\ p.vdi = q.vdi
         /\ p.pc = "merge" /\ q.pc = "merge") => p = q

\* C25: a remote target that has ended failed has deleted none of the backups
\* it listed.
C25_FailedTargetDeletesNothing ==
    (tpc = "failed" /\ op = "run") =>
        /\ listed \subseteq jsons
        /\ \A j \in listed : PayloadsPresent(j)

C37_ParentHoldsBaseSnapshot ==
    [][\A d \in Vdis :
          (/\ now \in Names(vhds[d]) /\ now \in Names(vhds'[d])
           /\ File(vhds[d], now).parent = 0
           /\ File(vhds'[d], now).parent # 0) =>
              LET parent == File(vhds'[d], File(vhds'[d], now).parent)
              IN /\ now - 1 \in parent.layers
                 /\ \A t \in parent.layers : t <= now - 1]_vars

(***************************************************************************)
(* SpecWriter: writeStream(input, handler, path, { checksum })             *)
(*   a file is [name, by, complete]: `by` is the call that wrote its bytes *)
(*   (0: it was there before), `complete` that all of them were written    *)
(*   ws.done   : the awaits of the try block passed so far                 *)
(*   ws.failed : the step whose error is being handled, ws.unlinked : the  *)
(*   unlink of the catch block went through                                *)
(*   ws.before : what was at `path` when the call started                  *)
(*   ws.error  : the error writeStream rejects with, named by the step     *)
(*   that raised it; ws.streamError : the input stream has emitted 'error' *)
(*   (the export failed, or was aborted by the token it was opened with)   *)
(* The source side (input, input.task) fails freely; the operations of the *)
(* remote handler fail within the budget of faults.                        *)
(***************************************************************************)
Paths == 1..NumPaths

\* a plausible slip: the stream is written at the path itself
TmpPathIsPath(path) == path

\* `${dirname(path)}/.${basename(path)}`
TmpPath(path) == 0 - path

At(fs, n) == {f \in fs : f.name = n}

RemoteAtRest ==
    /\ now = 0 /\ jsons = {} /\ xvas = {}
    /\ vhds = [d \in Vdis |-> {}] /\ tpc = "idle" /\ op = "none" /\ run = NoRun
    /\ listed = {} /\ oldBackups = {} /\ wr = <<>> /\ dels = {}

InitWriter ==
    /\ QAtRest
    /\ fk = NoFork
    /\ tk = NoWrap
    /\ sr = NoSr
    /\ files \in SUBSET {[name |-> q, by |-> 0, complete |-> TRUE] : q \in Paths}
    /\ ws = NoWrite
    /\ faults = 0
    /\ jobMode = "full"
    /\ RemoteAtRest
    /\ WorkerAtRest
    /\ ExecutorAtRest

WsThrow(step) ==
    ws' = [ws EXCEPT !.pc = "thrown", !.failed = step, !.error = step]
WsCatch(step) == ws' = [ws EXCEPT !.pc = "unlink", !.failed = step]
WsPass(step, pc) == ws' = [ws EXCEPT !.pc = pc, !.done = @ \cup {step}]

\* writeStream is called
WsCall(path, checksum) ==
    /\ ws.pc \in {"idle", "returned", "thrown"}
    /\ ws.n < MaxRuns
    /\ ws' = [pc |-> "input", path |-> path, checksum |-> checksum, done |-> {},
              failed |-> "none", unlinked |-> FALSE, before |-> At(files, path),
              n |-> ws.n + 1, error |-> "none", streamError |-> FALSE]
    /\ UNCHANGED <<files, faults>>

\* input = await input
WsInput ==
    /\ ws.pc = "input"
    /\ \/ ws' = [ws EXCEPT !.pc = "create"]
       \/ WsThrow("input")
    /\ UNCHANGED <<files, faults>>

\* const output = await handler.createOutputStream(tmpPath, { checksum }),
\* before the try block; a file already at tmpPath is truncated or refused
WsCreate ==
    /\ ws.pc = "create"
    /\ LET tmp == TmpPath(ws.path)
       IN \/ /\ files' = (files \ At(files, tmp))
                            \cup {[name |-> tmp, by |-> ws.n, complete |-> FALSE]}
             /\ ws' = [ws EXCEPT !.pc = "finish"]
             /\ Succeeds
          \/ /\ At(files, tmp) # {}
             /\ files' = files
             /\ WsThrow("create")
             /\ Succeeds
          \/ /\ files' = files
             /\ WsThrow("create")
             /\ Fails

\* the input stream emits 'error' while it is piped: pipe() neither forwards
\* the error to the output nor ends it
WsStreamError ==
    /\ ws.pc = "finish"
    /\ ~ws.streamError
    /\ ws' = [ws EXCEPT !.streamError = TRUE]
    /\ UNCHANGED <<files, faults>>

\* input.pipe(output); await pFromEvent(output, 'finish'): the output finishes
\* once the input has ended, or emits an error of its own
WsFinish ==
    /\ ws.pc = "finish"
    /\ LET tmp == TmpPath(ws.path)
       IN \/ /\ ~ws.streamError
             /\ files' = (files \ At(files, tmp))
                            \cup {[name |-> tmp, by |-> ws.n, complete |-> TRUE]}
             /\ WsPass("finish", "checksum")
             /\ Succeeds
          \/ /\ files' = files
             /\ WsCatch("finish")
             /\ Fails

\* await output.checksumWritten: undefined without the checksum option
WsChecksumWritten ==
    /\ ws.pc = "checksum"
    /\ files' = files
    /\ \/ /\ IF ws.checksum THEN WsPass("checksum", "task")
                            ELSE ws' = [ws EXCEPT !.pc = "task"]
          /\ Succeeds
       \/ /\ ws.checksum
          /\ WsCatch("checksum")
          /\ Fails

\* await input.task: the export task of the hypervisor
WsTask ==
    /\ ws.pc = "task"
    /\ \/ WsPass("task", "rename")
       \/ WsCatch("task")
    /\ UNCHANGED <<files, faults>>

\* await handler.rename(tmpPath, path, { checksum })
WsRename ==
    /\ ws.pc = "rename"
    /\ \/ /\ files' = RenameFile(files, TmpPath(ws.path), ws.path)
          /\ ws' = [ws EXCEPT !.pc = "returned"]
          /\ Succeeds
       \/ /\ files' = files
          /\ WsCatch("rename")
          /\ Fails

\* catch (error): await handler.unlink(tmpPath, { checksum }); throw error
WsUnlink ==
    /\ ws.pc = "unlink"
    /\ \/ /\ files' = UnlinkFile(files, TmpPath(ws.path))
          /\ ws' = [ws EXCEPT !.pc = "thrown", !.unlinked = TRUE, !.error = ws.failed]
          /\ Succeeds
       \/ /\ files' = files
          /\ ws' = [ws EXCEPT !.pc = "thrown", !.error = "unlink"]
          /\ Fails

\* the process stops at an await of writeStream
WsInterrupt ==
    /\ ws.pc \in {"input", "create", "finish", "checksum", "task", "rename", "unlink"}
    /\ ws' = [NoWrite EXCEPT !.n = ws.n]
    /\ UNCHANGED <<files, faults>>

WriterOnly == UNCHANGED <<rvars, wvars, evars, hvars>>

NextWriter ==
    \/ (\E path \in Paths, checksum \in BOOLEAN : WsCall(path, checksum)) /\ WriterOnly
    \/ WsInput /\ WriterOnly
    \/ WsCreate /\ WriterOnly
    \/ WsStreamError /\ WriterOnly
    \/ WsFinish /\ WriterOnly
    \/ WsChecksumWritten /\ WriterOnly
    \/ WsTask /\ WriterOnly
    \/ WsRename /\ WriterOnly
    \/ WsUnlink /\ WriterOnly
    \/ WsInterrupt /\ WriterOnly

SpecWriter == InitWriter /\ [][NextWriter]_vars

\* writeStream goes on as long as an await of it can settle without a failure
\* of the remote; the process is not bound to stop, nor the remote to fail
SpecWriterFair ==
    /\ SpecWriter
    /\ WF_vars(/\ \/ WsInput \/ WsCreate \/ WsFinish \/ WsChecksumWritten
                   \/ WsTask \/ WsRename \/ WsUnlink
                /\ Succeeds
                /\ WriterOnly)

(***************************************************************************)
(* Properties of writeStream                                               *)
(***************************************************************************)
\* the steps of the try block that come before the rename
TrySteps == {"finish", "checksum", "task"}

\* C4, as stated: once a step of the try block has failed and writeStream has
\* thrown, no file is left at the temporary path.
C4_TemporaryUnlinkedOnFailure ==
    (ws.pc = "thrown" /\ ws.failed \in TrySteps \cup {"rename"})
        => At(files, TmpPath(ws.path)) = {}

\* C4, amended: a step of writeStream touches no file but the one at the
\* temporary path, except the rename; the file at `path` changes only by the
\* rename, taken after 'finish', the checksum (when asked for) and input.task,
\* and becomes the complete file of this call; when a step fails the unlink of
\* the temporary file is attempted, the file at `path` is what it was before
\* the call, and the temporary file is gone unless that unlink itself failed.
C4_AtomicWrite ==
    [][LET tmp == TmpPath(ws.path)
       IN /\ \A f \in files \cup files' :
                 f.name \notin {ws.path, tmp} => (f \in files /\ f \in files')
          /\ At(files', ws.path) # At(files, ws.path) =>
                 /\ ws.pc = "rename" /\ ws'.pc = "returned"
                 /\ {"finish", "task"} \subseteq ws.done
                 /\ ws.checksum => "checksum" \in ws.done
                 /\ At(files', ws.path)
                        = {[name |-> ws.path, by |-> ws.n, complete |-> TRUE]}
                 /\ At(files', tmp) = {}
          /\ (ws'.pc = "thrown" /\ ws.pc # "thrown") =>
                 /\ At(files', ws.path) = ws.before
                 /\ ws'.failed \in TrySteps \cup {"rename"} => ws.pc = "unlink"
                 /\ ws'.unlinked => At(files', tmp) = {}]_vars

C4_Witness ==
    /\ ws.pc = "thrown"
    /\ ws.failed = "task"
    /\ ws.unlinked
    /\ ws.checksum
    /\ ws.before # {}
    /\ At(files, ws.path) = ws.before
    /\ At(files, TmpPath(ws.path)) = {}

\* C27: once the input stream has emitted an error during a write, the call
\* of writeStream ends (it throws, unless the process stops first).
C27_StreamErrorEndsTheWrite ==
    ws.streamError ~> ws.pc \in {"thrown", "idle"}

\* C28: the error writeStream throws is the error of the step that failed.
C28_OriginalErrorPropagated ==
    ws.pc = "thrown" => ws.error = ws.failed

(***************************************************************************)
(* SpecWorker: _backupVm(vmUuid, job, schedule) under the VM task of the   *)
(* executor, for successive runs of one job on one VM.                     *)
(*   a snapshot is [ts, sched]: its snapshot_time and the schedule of its  *)
(*   xo:backup:schedule tag; sched = 0 while it carries no backup tag      *)
(*   wk.snapshots : `snapshots`, the job's snapshots found by the run      *)
(*   wk.snapshot  : snapshot_time of the snapshot taken by the run, or 0   *)
(*   wk.defers    : what $defer holds, executed last first on exit         *)
(*   wk.threw     : the function exits by an exception                     *)
(*   wk.error     : the message of the first error thrown by the function  *)
(* job.mode is "full", "delta" or a value that is neither ("other").       *)
(* The live VM carries no backup tag, vmTimeout is 0, and a target is the  *)
(* child task that wrapTaskFn puts around it, which succeeds or fails.     *)
(***************************************************************************)
Targets == 1..NumTargets

\* job.remotes and job.srs together: targets differ by their outcome only
TargetSets == {1..k : k \in 0..NumTargets}

\* compareSnapshotTime: the snapshots of S in ascending snapshot_time
RECURSIVE SortBySnapshotTime(_)
SortBySnapshotTime(S) ==
    IF S = {} THEN <<>>
    ELSE LET m == CHOOSE x \in S : \A y \in S : x.ts <= y.ts
         IN <<m>> \o SortBySnapshotTime(S \ {m})

InitWorker ==
    /\ QAtRest
    /\ fk = NoFork
    /\ tk = NoWrap
    /\ sr = NoSr
    /\ vmSnapshots = {}
    /\ wk = NoWorker
    /\ tasks = NoTasks
    /\ faults = 0
    /\ jobMode \in Modes \cup {"other"}
    /\ RemoteAtRest
    /\ WriterAtRest
    /\ ExecutorAtRest

\* vm.$snapshots.filter(_ => _.other_config['xo:backup:job'] === jobId)
JobSnapshots == {x \in vmSnapshots : x.sched # 0}

\* snapshots.filter(_ => _.other_config['xo:backup:schedule'] === scheduleId)
OfSchedule(S, scheduleId) == {x \in S : x.sched = scheduleId}

\* throw new Error(message)
ThrowError(message) ==
    wk' = [wk EXCEPT !.pc = "exit", !.threw = TRUE, !.error = message]

\* an awaited operation of the hypervisor rejects
Throw == ThrowError("operation failed")

\* executor: task.start of the VM task, then _backupVm up to `snapshots`
StartVmTask(eR, sR, scheduleId, T) ==
    /\ wk.pc \in {"idle", "ended"}
    /\ wk.n < MaxRuns
    /\ tasks' = [vm |-> "started", targets |-> <<>>]
    /\ LET w == [NoWorker EXCEPT !.n = wk.n + 1, !.eR = eR, !.sR = sR,
                                 !.sched = scheduleId, !.targets = T]
       IN IF eR = 0 /\ sR = 0
          THEN wk' = [w EXCEPT
                        !.pc = "exit", !.threw = TRUE,
                        !.error = "export and snapshots retentions cannot both be 0"]
          ELSE wk' = [w EXCEPT !.pc = "health", !.snapshots = JobSnapshots]
    /\ UNCHANGED <<vmSnapshots, faults>>

\* a plausible slip: the chain is checked once the snapshot has been taken
AssertHealthyVdiChainsAfterSnapshot ==
    /\ wk.pc = "health"
    /\ \/ /\ wk' = [wk EXCEPT !.pc = "snapshot"]
          /\ vmSnapshots' = vmSnapshots
          /\ Succeeds
       \/ /\ ThrowError("unhealthy VDI chain")
          /\ vmSnapshots' = vmSnapshots \cup {[ts |-> wk.n, sched |-> 0]}
          /\ Fails
    /\ UNCHANGED tasks

\* await xapi._assertHealthyVdiChains(vm)
AssertHealthyVdiChains ==
    /\ wk.pc = "health"
    /\ \/ wk' = [wk EXCEPT !.pc = "snapshot"] /\ Succeeds
       \/ ThrowError("unhealthy VDI chain") /\ Fails
    /\ UNCHANGED <<vmSnapshots, tasks>>

\* await wrapTask({ message: 'snapshot' }, xapi._snapshotVm(...))
SnapshotVm ==
    /\ wk.pc = "snapshot"
    /\ \/ /\ vmSnapshots' = vmSnapshots \cup {[ts |-> wk.n, sched |-> 0]}
          /\ wk' = [wk EXCEPT !.pc = "tag", !.snapshot = wk.n]
          /\ Succeeds
       \/ /\ vmSnapshots' = vmSnapshots
          /\ Throw
          /\ Fails
    /\ UNCHANGED tasks

\* await xapi._updateObjectMapProperty(snapshot, 'other_config', tags); then
\* $defer(() => asyncMap(getOldEntries(snapshotRetention, ...), deleteVm))
TagSnapshot ==
    /\ wk.pc = "tag"
    /\ \/ /\ vmSnapshots' = (vmSnapshots \ {[ts |-> wk.snapshot, sched |-> 0]})
                                \cup {[ts |-> wk.snapshot, sched |-> wk.sched]}
          /\ wk' = [wk EXCEPT !.pc = "barrier",
                              !.defers = <<[kind |-> "retention", when |-> "always"]>>]
          /\ Succeeds
       \/ /\ vmSnapshots' = vmSnapshots
          /\ Throw
          /\ Fails
    /\ UNCHANGED tasks

\* a plausible slip: the snapshot is deleted on every exit in delta mode too
SnapshotDeferAlways(mode) == [kind |-> "deleteVm", when |-> "always"]

\* snapshotRetention === 0: $defer.call(xapi, 'deleteVm', snapshot) in full
\* mode, $defer.onFailure.call(xapi, 'deleteVm', snapshot) in delta mode
SnapshotDefer(mode) ==
    [kind |-> "deleteVm", when |-> IF mode = "full" THEN "always" ELSE "failure"]

\* a plausible slip: the return of the snapshot-only run is missing
SnapshotOnlyNever(exportRetention) == FALSE

\* if (exportRetention === 0) return
SnapshotOnly(exportRetention) == exportRetention = 0

\* snapshot = await xapi.barrier(snapshot.$ref), then up to the export
Barrier ==
    /\ wk.pc = "barrier"
    /\ \/ /\ Succeeds
          /\ IF SnapshotOnly(wk.eR)
             THEN wk' = [wk EXCEPT !.pc = "exit"]
             ELSE IF wk.targets = {}
                  THEN ThrowError("export retention must be 0 without remotes and SRs")
                  ELSE IF jobMode \notin Modes
                       THEN ThrowError("no exporter for backup mode")
                       ELSE wk' = [wk EXCEPT
                                     !.pc = "export",
                                     !.defers = IF wk.sR = 0
                                                THEN Append(@, SnapshotDefer(jobMode))
                                                ELSE @]
       \/ Throw /\ Fails
    /\ UNCHANGED <<vmSnapshots, tasks>>

\* a plausible slip: the export is opened while the barrier is awaited
ExportBeforeBarrier ==
    /\ wk.pc \in {"barrier", "export"}
    /\ wk.eR > 0 /\ wk.targets # {} /\ jobMode \in Modes
    /\ wk' = [wk EXCEPT !.pc = "targets"]
    /\ tasks' = [tasks EXCEPT !.targets = [t \in wk.targets |-> "started"]]
    /\ Succeeds
    /\ UNCHANGED vmSnapshots

\* await xapi.exportVm(...) / await xapi.exportDeltaVm(...), then the targets
\* are started: task.start of each 'export' task
Export ==
    /\ wk.pc = "export"
    /\ \/ /\ wk' = [wk EXCEPT !.pc = "targets"]
          /\ tasks' = [tasks EXCEPT !.targets = [t \in wk.targets |-> "started"]]
          /\ Succeeds
       \/ /\ Throw
          /\ tasks' = tasks
          /\ Fails
    /\ UNCHANGED vmSnapshots

\* wrapTaskFn: the target returns or throws, task.end of its 'export' task
TargetEnds(t) ==
    /\ wk.pc = "targets"
    /\ t \in DOMAIN tasks.targets
    /\ tasks.targets[t] = "started"
    /\ \/ tasks' = [tasks EXCEPT !.targets[t] = "success"] /\ Succeeds
       \/ tasks' = [tasks EXCEPT !.targets[t] = "failure"] /\ Fails
    /\ UNCHANGED <<vmSnapshots, wk>>

\* await waitAll([...], noop): every target has settled, rejections are dropped
WaitAll ==
    /\ wk.pc = "targets"
    /\ \A t \in DOMAIN tasks.targets : tasks.targets[t] # "started"
    /\ wk' = [wk EXCEPT !.pc = "exit"]
    /\ UNCHANGED <<vmSnapshots, tasks, faults>>

\* the snapshots a deferred call deletes
Doomed(d) ==
    IF d.kind = "deleteVm"
    THEN IF d.when = "failure" /\ ~wk.threw
         THEN {}
         ELSE OfSchedule(vmSnapshots, wk.sched) \cap {[ts |-> wk.snapshot, sched |-> wk.sched]}
    ELSE Range(GetOldEntries(wk.sR,
                   SortBySnapshotTime(OfSchedule(wk.snapshots, wk.sched))))

\* on exit of _backupVm the last deferred call is executed: xapi.deleteVm of
\* each snapshot; one that fails leaves its snapshot, and the error is either
\* thrown by _backupVm or only logged
RunDeferred ==
    /\ wk.pc = "exit"
    /\ wk.defers # <<>>
    /\ LET d == wk.defers[Len(wk.defers)]
           rest == SubSeq(wk.defers, 1, Len(wk.defers) - 1)
       IN \/ /\ vmSnapshots' = vmSnapshots \ Doomed(d)
             /\ wk' = [wk EXCEPT !.defers = rest]
             /\ Succeeds
          \/ /\ \E x \in Doomed(d) : vmSnapshots' = vmSnapshots \ (Doomed(d) \ {x})
             /\ \E th \in {wk.threw, TRUE} :
                   wk' = [wk EXCEPT !.defers = rest, !.threw = th,
                                    !.cleanupFailed = TRUE]
             /\ Fails
    /\ UNCHANGED tasks

\* executor: await p, then task.end of the VM task: success, or failure in
\* the catch block
VmTaskEnd ==
    /\ wk.pc = "exit"
    /\ wk.defers = <<>>
    /\ wk' = [wk EXCEPT !.pc = "ended"]
    /\ tasks' = [tasks EXCEPT !.vm = IF wk.threw THEN "failure" ELSE "success"]
    /\ UNCHANGED <<vmSnapshots, faults>>

WorkerOnly == UNCHANGED <<rvars, svars, evars, hvars>>

NextWorker ==
    \* the worker only tests exportRetention against 0
    \/ /\ \E eR \in {0, 1}, sR \in 0..MaxRetention,
             scheduleId \in Schedules, T \in TargetSets :
             StartVmTask(eR, sR, scheduleId, T)
       /\ WorkerOnly
    \/ AssertHealthyVdiChains /\ WorkerOnly
    \/ SnapshotVm /\ WorkerOnly
    \/ TagSnapshot /\ WorkerOnly
    \/ Barrier /\ WorkerOnly
    \/ Export /\ WorkerOnly
    \/ (\E t \in Targets : TargetEnds(t)) /\ WorkerOnly
    \/ WaitAll /\ WorkerOnly
    \/ RunDeferred /\ WorkerOnly
    \/ VmTaskEnd /\ WorkerOnly

SpecWorker == InitWorker /\ [][NextWorker]_vars

(***************************************************************************)
(* Properties of the worker                                                *)
(***************************************************************************)
\* the run has ended and its VM task is a success
RunSucceeded == wk.pc = "ended" /\ tasks.vm = "success"

\* the snapshot taken by the run, with its tags
NewSnapshot == [ts |-> wk.snapshot, sched |-> wk.sched]

\* the prior snapshots carrying the tags of the run, and those left
PriorCount == Cardinality(OfSchedule(wk.snapshots, wk.sched))
Kept == OfSchedule(vmSnapshots, wk.sched)

C29_OldEntriesEmptyBelowOne ==
    (RunSucceeded /\ ~wk.cleanupFailed) =>
        LET sorted == SortBySnapshotTime(OfSchedule(wk.snapshots, wk.sched))
        IN OfSchedule(wk.snapshots, wk.sched) \ vmSnapshots
             = Range(IF wk.sR >= 1
                     THEN SubSeq(sorted, 1, Len(sorted) - Max(0, wk.sR - 1))
                     ELSE <<>>)

\* C29, amended: for s >= 1 they are the first len - max(0, s - 1), so none of
\* the last s - 1; for s < 1 they are all of them; none when there is no entry.
C29_OldEntries ==
    (RunSucceeded /\ ~wk.cleanupFailed) =>
        LET prior == OfSchedule(wk.snapshots, wk.sched)
            sorted == SortBySnapshotTime(prior)
            n == Len(sorted)
            old == prior \ vmSnapshots
        IN /\ old = Range(IF wk.sR >= 1
                          THEN SubSeq(sorted, 1, n - Max(0, wk.sR - 1))
                          ELSE sorted)
           /\ wk.sR >= 1 =>
                 \A i \in 1..n : i > n - (wk.sR - 1) => sorted[i] \notin old
           /\ prior = {} => old = {}

C29_Witness ==
    /\ RunSucceeded
    /\ ~wk.cleanupFailed
    /\ wk.sR = 0
    /\ Cardinality(OfSchedule(wk.snapshots, wk.sched)) >= 2
    /\ OfSchedule(wk.snapshots, wk.sched) \cap vmSnapshots = {}

\* C32: in a run the snapshot is created, then tagged, then barriered; the
\* export is opened and the targets are started only after the barrier, the
\* tagged snapshot of the run being on the hypervisor.
C32_StepsOrdered ==
    /\ [](wk.pc \in {"barrier", "export", "targets"} =>
              [ts |-> wk.snapshot, sched |-> wk.sched] \in vmSnapshots)
    /\ [][/\ (wk'.pc = "tag" /\ wk.pc # "tag") =>
                 /\ wk.pc = "snapshot"
                 /\ [ts |-> wk'.snapshot, sched |-> 0] \in vmSnapshots' \ vmSnapshots
          /\ (wk'.pc = "barrier" /\ wk.pc # "barrier") => wk.pc = "tag"
          /\ (wk'.pc = "export" /\ wk.pc # "export") => wk.pc = "barrier"
          /\ (wk'.pc = "targets" /\ wk.pc # "targets") => wk.pc = "export"
          /\ (tasks'.targets # <<>> /\ tasks.targets = <<>>) => wk.pc = "export"]_vars

C32_Witness ==
    /\ wk.pc = "targets"
    /\ \E t \in DOMAIN tasks.targets : tasks.targets[t] = "started"
    /\ [ts |-> wk.snapshot, sched |-> wk.sched] \in vmSnapshots
    /\ wk.snapshot = wk.n

\* C39: a run that failed a precondition on its configuration has created no
\* snapshot and deleted none of the snapshots of the job.
C39_InvalidConfigLeavesSnapshots ==
    wk.error \in {"export and snapshots retentions cannot both be 0",
                  "export retention must be 0 without remotes and SRs"} =>
        /\ \A x \in vmSnapshots : x.ts # wk.n
        /\ wk.snapshots \subseteq vmSnapshots

\* C8: after each run in which no operation failed, whatever its outcome, the
\* live snapshots of the VM tagged with the job are at most snapshotRetention.
C8_JobSnapshotsWithinRetention ==
    (wk.pc = "ended" /\ faults = 0) => Cardinality(JobSnapshots) <= wk.sR

\* C9: when a run has several targets and one of them fails, the VM task ends
\* with status failure.
C9_FailedTargetFailsVmTask ==
    (/\ wk.pc = "ended"
     /\ Cardinality(DOMAIN tasks.targets) >= 2
     /\ \E t \in DOMAIN tasks.targets : tasks.targets[t] = "failure")
        => tasks.vm = "failure"

\* C14: a run with exportRetention = 0 and snapshotRetention > 0 opens no
\* export and starts no target (no remote file operation, no import); when it
\* has succeeded, its tagged snapshot is on the hypervisor and snapshot
\* retention has been applied.
C14_SnapshotOnlyRun ==
    (wk.eR = 0 /\ wk.sR > 0) =>
        /\ wk.pc \notin {"export", "targets"}
        /\ tasks.targets = <<>>
        /\ (RunSucceeded /\ ~wk.cleanupFailed) =>
              /\ NewSnapshot \in vmSnapshots
              /\ Cardinality(Kept) = Min(wk.sR, PriorCount + 1)

C14_Witness ==
    /\ RunSucceeded
    /\ ~wk.cleanupFailed
    /\ wk.eR = 0
    /\ wk.sR > 0
    /\ wk.targets # {}
    /\ PriorCount >= wk.sR
    /\ NewSnapshot \in vmSnapshots

\* C16: a run whose configuration is invalid (both retentions 0, an export
\* retention without remote and SR, a mode other than full or delta) ends with
\* a failed VM task.
C16_InvalidConfigFails ==
    (/\ wk.pc = "ended"
     /\ \/ wk.eR = 0 /\ wk.sR = 0
        \/ wk.eR > 0 /\ wk.targets = {}
        \/ jobMode \notin Modes)
        => tasks.vm = "failure"

\* C17: a VM whose run stops at the VDI chain health check is logged as
\* skipped: its VM task does not end with status failure.
C17_UnhealthyChainIsSkipped ==
    (wk.pc = "ended" /\ wk.error = "unhealthy VDI chain") => tasks.vm # "failure"

\* C18: a run stopped by the VDI chain health check has taken no snapshot and
\* has opened no export: the VM has no snapshot of this run and no target task
\* was started.
C18_UnhealthyChainAbortsBeforeSnapshot ==
    wk.error = "unhealthy VDI chain" =>
        /\ wk.snapshot = 0
        /\ \A x \in vmSnapshots : x.ts # wk.n
        /\ wk.pc \in {"exit", "ended"}
        /\ tasks.targets = <<>>

C18_Witness ==
    /\ wk.pc = "ended"
    /\ wk.error = "unhealthy VDI chain"
    /\ tasks.vm = "failure"
    /\ vmSnapshots # {}

(***************************************************************************)
(* SpecExec: the executor registered for 'backup' jobs                     *)
(*   ex.pc  : "idle", "running", then "resolved" or "rejected": how the    *)
(*            promise of the executor settles, which is all its caller     *)
(*            gets from it; ex.error is the message it rejects with        *)
(*   ex.vms : VM -> "none", "started" (task.start emitted, _backupVm       *)
(*            called), "success" or "failure" (task.end)                   *)
(*   ex.vmTimeout : VM -> its vmTimeout setting, read once it has started  *)
(*   ex.cancelled : the VMs whose vmCancel has been cancelled              *)
(*   ex.timedOut  : the VMs whose pTimeout has rejected                    *)
(*   ex.active    : the VMs whose call of _backupVm has not settled yet    *)
(* A call of _backupVm is taken by its outcome: it resolves or it rejects  *)
(* (a configuration error, a failed snapshot or export, a cancelled token).*)
(* Until it settles it goes on with its steps (hypervisor and remote       *)
(* operations, task events of its children, deferred cleanups on exit); a  *)
(* new run of the job starts once the workers of the run before are done.  *)
(***************************************************************************)
Vms == 1..NumVms

InitExec ==
    /\ QAtRest
    /\ fk = NoFork
    /\ tk = NoWrap
    /\ sr = NoSr
    /\ ex = NoExecutor
    /\ faults = 0
    /\ jobMode \in Modes
    /\ RemoteAtRest
    /\ WriterAtRest
    /\ WorkerAtRest

\* a plausible slip: an empty set of VMs is let through
IsEmptyNever(vms) == FALSE

\* isEmpty(vms)
IsEmpty(vms) == vms = {}

\* executor: schedule === undefined, app.getObjects, isEmpty(vms)
ExecutorStart(hasSchedule, matched) ==
    /\ ex.pc \in {"idle", "resolved", "rejected"}
    /\ ex.active = {}
    /\ IF ~hasSchedule
       THEN ex' = [NoExecutor EXCEPT
                     !.pc = "rejected",
                     !.error = "backup job cannot run without a schedule"]
       ELSE IF IsEmpty(matched)
            THEN ex' = [NoExecutor EXCEPT !.pc = "rejected",
                                          !.error = "no VMs match this pattern"]
            ELSE ex' = [NoExecutor EXCEPT !.pc = "running",
                                          !.vms = [v \in matched |-> "none"],
                                          !.vmTimeout = [v \in matched |-> 0]]

\* asyncMap(vms, async vm => ...): task.start, vmCancel, this._backupVm(...),
\* getSetting(job.settings, 'vmTimeout', uuid, scheduleId)
VmTaskStart(v, vmTimeout) ==
    /\ ex.pc = "running"
    /\ v \in DOMAIN ex.vms
    /\ ex.vms[v] = "none"
    /\ ex' = [ex EXCEPT !.vms[v] = "started", !.vmTimeout[v] = vmTimeout,
                        !.active = @ \cup {v}]

\* await p resolves: task.end with status success
WorkerResolves(v) ==
    /\ ex.pc = "running"
    /\ v \in DOMAIN ex.vms
    /\ ex.vms[v] = "started"
    /\ ex' = [ex EXCEPT !.vms[v] = "success", !.active = @ \ {v}]

\* catch (error): vmCancel.cancel(), task.end with status failure; the callback
\* of asyncMap then returns normally
CatchError(v) ==
    [ex EXCEPT !.vms[v] = "failure", !.cancelled = @ \cup {v}]

\* await p rejects with the error of _backupVm
WorkerRejects(v) ==
    /\ ex.pc = "running"
    /\ v \in DOMAIN ex.vms
    /\ ex.vms[v] = "started"
    /\ ex' = [CatchError(v) EXCEPT !.active = @ \ {v}]

\* a plausible slip: the worker is raced against the deadline whatever vmTimeout
TimeoutAppliesAlways(vmTimeout) == TRUE

\* if (vmTimeout !== 0) p = pTimeout.call(p, vmTimeout)
TimeoutApplies(vmTimeout) == vmTimeout # 0

\* await p rejects because the deadline has passed while _backupVm is pending
VmTimeout(v) ==
    /\ ex.pc = "running"
    /\ v \in DOMAIN ex.vms
    /\ ex.vms[v] = "started"
    /\ TimeoutApplies(ex.vmTimeout[v])
    /\ ex' = [CatchError(v) EXCEPT !.timedOut = @ \cup {v}]

\* the worker of a VM that has timed out settles: pTimeout has left it
\* running, and nothing awaits its promise any more
WorkerEndsLate(v) ==
    /\ v \in ex.active
    /\ v \in ex.timedOut
    /\ ex' = [ex EXCEPT !.active = @ \ {v}]

VmSettled(v) == ex.vms[v] \in {"success", "failure"}

\* a plausible slip: the executor returns as soon as a VM has failed
ExecutorFailsFast ==
    /\ ex.pc = "running"
    /\ \/ \A v \in DOMAIN ex.vms : VmSettled(v)
       \/ \E v \in DOMAIN ex.vms : ex.vms[v] = "failure"
    /\ ex' = [ex EXCEPT !.pc = "resolved"]

\* await asyncMap(...): every callback has returned, none of them throws
ExecutorReturns ==
    /\ ex.pc = "running"
    /\ \A v \in DOMAIN ex.vms : VmSettled(v)
    /\ ex' = [ex EXCEPT !.pc = "resolved"]

ExecOnly == UNCHANGED <<rvars, faults, svars, wvars, hvars>>

NextExec ==
    \/ /\ \E hasSchedule \in BOOLEAN, matched \in SUBSET Vms :
             ExecutorStart(hasSchedule, matched)
       /\ ExecOnly
    \/ (\E v \in Vms, vmTimeout \in {0, 1} : VmTaskStart(v, vmTimeout)) /\ ExecOnly
    \/ (\E v \in Vms : WorkerResolves(v)) /\ ExecOnly
    \/ (\E v \in Vms : WorkerRejects(v)) /\ ExecOnly
    \/ (\E v \in Vms : VmTimeout(v)) /\ ExecOnly
    \/ (\E v \in Vms : WorkerEndsLate(v)) /\ ExecOnly
    \/ ExecutorReturns /\ ExecOnly

SpecExec == InitExec /\ [][NextExec]_vars

(***************************************************************************)
(* Properties of the executor                                              *)
(***************************************************************************)
\* the run has ended: the executor has settled after starting its VM tasks
RunEnded == ex.pc \in {"resolved", "rejected"} /\ DOMAIN ex.vms # {}

\* C10: when the run has ended, it has ended with success (the executor
\* resolved) if and only if every VM task ended with success; with a failed VM
\* worker it has ended with failure (the executor rejected).
C10_RunSuccessIffAllVmsSucceed ==
    RunEnded =>
        (ex.pc = "resolved" <=> \A v \in DOMAIN ex.vms : ex.vms[v] = "success")

\* C12: the executor never fails fast. While a VM worker has failed, timed out
\* or had its token cancelled, the executor has not returned before every VM
\* task has its task.end, no VM is left without a task, and the token of a VM
\* is cancelled by the failure of that VM only.
C12_NeverFailFast ==
    /\ ex.pc = "resolved" => \A v \in DOMAIN ex.vms : VmSettled(v)
    /\ \A v \in ex.cancelled : ex.vms[v] = "failure"

C12_Witness ==
    /\ ex.pc = "resolved"
    /\ \E u, v, w \in DOMAIN ex.vms :
          /\ u \in ex.cancelled \ ex.timedOut
          /\ v \in ex.timedOut
          /\ ex.vms[w] = "success"

\* C15: a run whose pattern matches no VM is rejected with 'no VMs match this
\* pattern' before any VM work: a run that goes on has at least one VM, and the
\* rejected run has no VM task (no task.start, no call of _backupVm, hence no
\* snapshot and no target).
C15_NoVmMatchedRejects ==
    /\ ex.pc \in {"running", "resolved"} => DOMAIN ex.vms # {}
    /\ ex.error = "no VMs match this pattern" =>
          ex.pc = "rejected" /\ ex.vms = <<>> /\ ex.cancelled = {}

C15_Witness == ex.pc = "rejected" /\ ex.error = "no VMs match this pattern"

\* C19: when the deadline of a VM expires while its worker is pending, the
\* token of the VM is cancelled and its VM task ends with status failure; a VM
\* whose vmTimeout is 0 has no deadline.
C19_VmTimeout ==
    \A v \in ex.timedOut :
        /\ v \in ex.cancelled
        /\ ex.vms[v] = "failure"
        /\ ex.vmTimeout[v] > 0

C19_Witness ==
    \E u, v \in DOMAIN ex.vms :
        /\ u \in ex.timedOut
        /\ ex.vmTimeout[v] = 0
        /\ ex.vms[v] = "success"

\* C38: once the task.end of a VM task has been emitted, the worker of that
\* VM is no longer active, and when the executor has returned no worker is.
C38_NoWorkerAfterTaskEnd ==
    /\ \A v \in DOMAIN ex.vms : VmSettled(v) => v \notin ex.active
    /\ RunEnded => ex.active = {}

(***************************************************************************)
(* SpecFork: the fan-out of one export to the targets of a run             *)
(*   fk.sent  : chunks the export stream has written to its forks          *)
(*   fk.forks : target -> [pc, buf, got]: position of the target, chunks   *)
(*              waiting in its fork, chunks its transfer has read          *)
(* A fork is a PassThrough the export stream is piped into when the target *)
(* starts; the pipe pauses the export while one of its destinations is     *)
(* full, and nothing empties or destroys the fork of a target that has     *)
(* thrown. A target is a remote or an SR: both read their fork to its end. *)
(* The specification is fair: a step is taken as long as one is possible.  *)
(***************************************************************************)
InitFork ==
    /\ QAtRest
    /\ fk = NoFork
    /\ tk = NoWrap
    /\ sr = NoSr
    /\ faults = 0
    /\ jobMode \in Modes
    /\ RemoteAtRest
    /\ WriterAtRest
    /\ WorkerAtRest
    /\ ExecutorAtRest

\* waitAll([...remotes.map(...), ...srs.map(...)]): each target is called and
\* runs up to its first await, forkExport() included
StartTargets(nTargets) ==
    /\ fk.pc = "idle"
    /\ fk' = [pc |-> "streaming", sent |-> 0,
              forks |-> [t \in 1..nTargets |->
                            [pc |-> "prepare", buf |-> 0, got |-> 0]]]
    /\ Succeeds

SetFork(t, f) == fk' = [fk EXCEPT !.forks[t] = f]

\* a plausible slip: the export writes on whatever its forks hold
ExportPushUnthrottled ==
    /\ fk.pc = "streaming"
    /\ fk.sent < NumChunks
    /\ fk' = [fk EXCEPT !.sent = @ + 1,
                        !.forks = [t \in DOMAIN @ |-> [@[t] EXCEPT !.buf = @ + 1]]]
    /\ Succeeds

\* xva.pipe(fork) for every fork: a chunk is written to all of them, unless a
\* fork that is full has paused the stream
ExportPush ==
    /\ fk.pc = "streaming"
    /\ fk.sent < NumChunks
    /\ \A t \in DOMAIN fk.forks : fk.forks[t].buf < HighWaterMark
    /\ fk' = [fk EXCEPT !.sent = @ + 1,
                        !.forks = [t \in DOMAIN @ |-> [@[t] EXCEPT !.buf = @ + 1]]]
    /\ Succeeds

\* getRemoteHandler, _listVmBackups, the deletion when deleteFirst
TargetPrepares(t) ==
    /\ fk.pc = "streaming"
    /\ t \in DOMAIN fk.forks
    /\ fk.forks[t].pc = "prepare"
    /\ \/ SetFork(t, [fk.forks[t] EXCEPT !.pc = "transfer"]) /\ Succeeds
       \/ SetFork(t, [fk.forks[t] EXCEPT !.pc = "failure"]) /\ Fails

\* the transfer takes a chunk from its fork, or fails
TargetReads(t) ==
    /\ fk.pc = "streaming"
    /\ t \in DOMAIN fk.forks
    /\ fk.forks[t].pc = "transfer"
    /\ \/ /\ fk.forks[t].buf > 0
          /\ SetFork(t, [fk.forks[t] EXCEPT !.buf = @ - 1, !.got = @ + 1])
          /\ Succeeds
       \/ SetFork(t, [fk.forks[t] EXCEPT !.pc = "failure"]) /\ Fails

\* the fork has ended: the rest of the target, then task.end of its task
TargetReturns(t) ==
    /\ fk.pc = "streaming"
    /\ t \in DOMAIN fk.forks
    /\ fk.forks[t].pc = "transfer"
    /\ fk.forks[t].got = NumChunks
    /\ \/ SetFork(t, [fk.forks[t] EXCEPT !.pc = "success"]) /\ Succeeds
       \/ SetFork(t, [fk.forks[t] EXCEPT !.pc = "failure"]) /\ Fails

\* await waitAll(...) returns
TargetsSettled ==
    /\ fk.pc = "streaming"
    /\ \A t \in DOMAIN fk.forks : fk.forks[t].pc \in {"success", "failure"}
    /\ fk' = [fk EXCEPT !.pc = "done"]
    /\ Succeeds

ForkOnly == UNCHANGED <<rvars, svars, wvars, evars, tk, sr, qvars>>

NextFork ==
    \/ (\E nTargets \in 1..NumTargets : StartTargets(nTargets)) /\ ForkOnly
    \/ ExportPush /\ ForkOnly
    \/ (\E t \in Targets : TargetPrepares(t)) /\ ForkOnly
    \/ (\E t \in Targets : TargetReads(t)) /\ ForkOnly
    \/ (\E t \in Targets : TargetReturns(t)) /\ ForkOnly
    \/ TargetsSettled /\ ForkOnly

SpecFork == InitFork /\ [][NextFork]_vars /\ WF_vars(NextFork)

(***************************************************************************)
(* Properties of the fan-out                                               *)
(***************************************************************************)
\* C11: once a target of a run has failed, every other target of the run
\* eventually ends (its task.end is emitted, with success or failure).
C11_SiblingsOfFailedTargetEnd ==
    \A t \in Targets :
        (t \in DOMAIN fk.forks /\ fk.forks[t].pc = "failure")
            ~> (\A u \in DOMAIN fk.forks :
                    u # t => fk.forks[u].pc \in {"success", "failure"})

\* C22: the export is never more than the buffer of a fork ahead of what a
\* target has read, and no fork holds more than its buffer: the slowest target
\* holds the export back.
C22_BufferedDataIsBounded ==
    \A t \in DOMAIN fk.forks :
        /\ fk.forks[t].buf <= HighWaterMark
        /\ fk.sent - fk.forks[t].got <= HighWaterMark

C22_Witness ==
    \E t, u \in DOMAIN fk.forks :
        /\ t # u
        /\ fk.sent < NumChunks
        /\ fk.forks[t].buf = HighWaterMark
        /\ fk.forks[t].pc = "transfer"
        /\ fk.forks[u].buf = 0
        /\ fk.forks[u].got = fk.sent
        /\ fk.forks[u].pc = "transfer"

(***************************************************************************)
(* SpecTask: wrapTask, wrapTaskFn and the VM task of the executor          *)
(*   tk.log   : the events given to the logger, in order; an event is      *)
(*              [event, taskId, status, result], and the id the logger     *)
(*              returns for an event is its position in the log            *)
(*   tk.calls : taskId -> [kind, op, out]: the wrapper that emitted the    *)
(*              task.start, how the wrapped operation settled and how the  *)
(*              wrapper settled; an outcome is [settled, ok, value], value *)
(*              being the value or the error                               *)
(* Wrapped operations overlap freely (tasks nest and run side by side).    *)
(***************************************************************************)
Kinds == {"wrapTask", "wrapTaskFn", "vmTask"}

\* a promise that has not settled
Pending == [settled |-> FALSE, ok |-> TRUE, value |-> 0]

InitTask ==
    /\ QAtRest
    /\ tk = NoWrap
    /\ sr = NoSr
    /\ fk = NoFork
    /\ faults = 0
    /\ jobMode \in Modes
    /\ RemoteAtRest
    /\ WriterAtRest
    /\ WorkerAtRest
    /\ ExecutorAtRest

\* const taskId = logger.notice(message, { event: 'task.start', ... })
WrapCall(kind) ==
    /\ Len(tk.log) < 2 * MaxTasks
    /\ Cardinality(DOMAIN tk.calls) < MaxTasks
    /\ LET taskId == Len(tk.log) + 1
       IN tk' = [log |-> Append(tk.log, [event |-> "task.start", taskId |-> taskId,
                                         status |-> "none", result |-> 0]),
                 calls |-> [id \in DOMAIN tk.calls \cup {taskId} |->
                              IF id = taskId
                              THEN [kind |-> kind, op |-> Pending, out |-> Pending]
                              ELSE tk.calls[id]]]

\* the wrapped promise is fulfilled with a value or rejected with an error
OperationSettles(taskId, ok, value) ==
    /\ taskId \in DOMAIN tk.calls
    /\ ~tk.calls[taskId].op.settled
    /\ tk' = [tk EXCEPT !.calls[taskId].op =
                           [settled |-> TRUE, ok |-> ok, value |-> value]]

\* a plausible slip: the error handler logs a success
EndStatusSuccess(ok) == "success"

\* status: 'success' in the fulfilment handler, 'failure' in the rejection one
EndStatus(ok) == IF ok THEN "success" ELSE "failure"

\* what the wrapper settles with: wrapTask returns `task`, wrapTaskFn returns
\* value or throws result; the executor's callback returns nothing either way
WrapperOutcome(kind, task) ==
    IF kind = "vmTask" THEN [settled |-> TRUE, ok |-> TRUE, value |-> 0] ELSE task

\* the handler of the wrapper runs: task.end, then the wrapper settles
WrapperSettles(taskId) ==
    /\ taskId \in DOMAIN tk.calls
    /\ tk.calls[taskId].op.settled
    /\ ~tk.calls[taskId].out.settled
    /\ LET c == tk.calls[taskId]
       IN tk' = [log |-> Append(tk.log, [event |-> "task.end", taskId |-> taskId,
                                         status |-> EndStatus(c.op.ok),
                                         result |-> c.op.value]),
                 calls |-> [tk.calls EXCEPT ![taskId].out = WrapperOutcome(c.kind, c.op)]]

TaskOnly == UNCHANGED <<rvars, faults, svars, wvars, evars, fk, sr, qvars>>

NextTask ==
    \/ (\E kind \in Kinds : WrapCall(kind)) /\ TaskOnly
    \/ /\ \E taskId \in 1..(2 * MaxTasks), ok \in BOOLEAN, value \in {1, 2} :
             OperationSettles(taskId, ok, value)
       /\ TaskOnly
    \/ (\E taskId \in 1..(2 * MaxTasks) : WrapperSettles(taskId)) /\ TaskOnly

SpecTask == InitTask /\ [][NextTask]_vars

(***************************************************************************)
(* Properties of the task wrappers                                         *)
(***************************************************************************)
\* C20: every task.start has no task.end while its wrapper is pending and,
\* once the wrapper has settled, exactly one task.end with its taskId, emitted
\* after it, whose status is success if and only if the wrapped operation was
\* fulfilled and whose result is the error otherwise; wrapTask and wrapTaskFn
\* settle exactly as the wrapped operation did.
C20_OneTaskEndPerTaskStart ==
    /\ \A i \in DOMAIN tk.log :
          tk.log[i].event = "task.start" <=> i \in DOMAIN tk.calls
    /\ \A taskId \in DOMAIN tk.calls :
          LET c == tk.calls[taskId]
              ends == {j \in DOMAIN tk.log : /\ tk.log[j].event = "task.end"
                                             /\ tk.log[j].taskId = taskId}
          IN /\ c.out.settled => c.op.settled
             /\ IF ~c.out.settled
                THEN ends = {}
                ELSE /\ Cardinality(ends) = 1
                     /\ \A j \in ends :
                           /\ j > taskId
                           /\ tk.log[j].status = "success" <=> c.op.ok
                           /\ tk.log[j].status = "failure" <=> ~c.op.ok
                           /\ tk.log[j].result = c.op.value
                     /\ c.kind # "vmTask" => c.out = c.op

C20_Witness ==
    \E a, b \in DOMAIN tk.calls :
        /\ a < b
        /\ tk.calls[a].kind # "vmTask"
        /\ tk.calls[a].out.settled /\ ~tk.calls[a].out.ok
        /\ tk.calls[b].out.settled /\ tk.calls[b].op.ok
        /\ \E j \in DOMAIN tk.log :
              j > b /\ tk.log[j].event = "task.end" /\ tk.log[j].taskId = a

(***************************************************************************)
(* SpecChain: successive runs of one delta job with a fixed exportRetention *)
(* on one remote that is empty at first, no operation failing. The first   *)
(* run finds no base snapshot and exports the disks in full; every later   *)
(* run exports them against the snapshot of the run before it.             *)
(***************************************************************************)
InitChain ==
    /\ QAtRest
    /\ RemoteAtRest
    /\ jobMode = "delta"
    /\ faults = MaxFaults
    /\ fk = NoFork
    /\ tk = NoWrap
    /\ sr = NoSr
    /\ WriterAtRest
    /\ WorkerAtRest
    /\ ExecutorAtRest

\* a run reaches the remote target; baseSnapshot = last(snapshots) is the
\* snapshot of the run before, undefined in the first run
StartChainRun(df) ==
    /\ tpc = "idle"
    /\ now < ChainRuns
    /\ now' = now + 1
    /\ op' = "run"
    /\ run' = [eR |-> ChainRetention, sched |-> 1,
               deleteFirst |-> DeleteFirst(ChainRetention, df),
               isDelta |-> now > 0]
    /\ tpc' = "list"
    /\ UNCHANGED <<jobMode, jsons, xvas, vhds, listed, oldBackups, wr, dels, faults>>

NextChain ==
    \/ (\E df \in BOOLEAN : StartChainRun(df)) /\ RemoteOnly
    \/ ListBackups /\ RemoteOnly
    \/ (\E p \in dels : UnlinkJson(p)) /\ RemoteOnly
    \/ (\E p \in dels : DeleteVhdStep(p)) /\ RemoteOnly
    \/ DeletionSettled /\ RemoteOnly
    \* the export of the hypervisor does not fail either
    \/ /\ \E k \in DOMAIN wr : WriterStep(k) /\ wr'[k].pc \notin {"unlink", "err"}
       /\ RemoteOnly
    \/ TransferSettled /\ RemoteOnly
    \/ WriteSidecar /\ RemoteOnly
    \/ FinishTarget /\ RemoteOnly

SpecChain == InitChain /\ [][NextChain]_vars

(***************************************************************************)
(* Properties of the chain                                                 *)
(***************************************************************************)
\* C26: in delta mode with a fixed exportRetention k, after the r-th run the
\* directory of a VDI holds min(r, k) VHDs, named after the last runs: the
\* oldest is a full VHD without parent, holding the data of every run up to
\* its own (the first run wrote it in full, each safe-delete merged the
\* oldest into its child and renamed it onto the child), and every other one
\* is the delta of its run chained onto the VHD of the run before.
C26_DeltaChainUnderRetention ==
    TargetSucceeded =>
        \A d \in Vdis :
            LET dir == vhds[d]
                oldest == Max(1, now - run.eR + 1)
            IN /\ Cardinality(dir) = Min(now, run.eR)
               /\ Names(dir) = oldest..now
               /\ File(dir, oldest).kind = "full"
               /\ File(dir, oldest).parent = 0
               /\ File(dir, oldest).layers = 1..oldest
               /\ \A n \in (oldest + 1)..now :
                     /\ File(dir, n).kind = "delta"
                     /\ File(dir, n).parent = n - 1
                     /\ File(dir, n).layers = {n}

C26_Witness ==
    /\ TargetSucceeded
    /\ run.eR = ChainRetention
    /\ now = ChainRetention + 1
    /\ Cardinality(vhds[1]) = ChainRetention
    /\ File(vhds[1], 2).kind = "full"
    /\ File(vhds[1], 2).layers = {1, 2}
    /\ oldBackups # {}

(***************************************************************************)
(* SpecSr: the SR target of _backupVm (full and delta alike) for           *)
(* successive runs of one job on one VM and one SR                         *)
(*   a VM of the pool is [ts, sched, vm, sr, blocked]: its snapshot_time,  *)
(*   its xo:backup:schedule tag, whether its xo:backup:vm tag is that of   *)
(*   the VM (1), of another VM (2) or absent (0), whether its xo:backup:sr *)
(*   tag is that of the SR, and whether its start operation is blocked     *)
(*   sr.listed, sr.oldVms : listReplicatedVms(...) and getOldEntries of it *)
(*   sr.dels    : the xapi.deleteVm calls of _deleteVms not yet settled    *)
(*   sr.vm      : snapshot_time of the imported VM, 0 before the import    *)
(*   sr.pending : the calls of Promise.all([...]) not yet settled          *)
(*   sr.failed  : a call of the current asyncMap / Promise.all rejected    *)
(* The operations of the hypervisor fail within the budget of faults.      *)
(***************************************************************************)
\* VMs found on the SR before the first run: replicated before the
\* xo:backup:vm tag existed, replicated for another VM, and a replica whose
\* start has been unblocked
InitSr ==
    /\ QAtRest
    /\ sr \in {[NoSr EXCEPT !.vms = V] :
                 V \in SUBSET {[ts |-> 0, sched |-> 1, vm |-> 0, sr |-> TRUE, blocked |-> TRUE],
                               [ts |-> -1, sched |-> 1, vm |-> 2, sr |-> TRUE, blocked |-> TRUE],
                               [ts |-> -2, sched |-> 1, vm |-> 1, sr |-> TRUE, blocked |-> FALSE]}}
    /\ fk = NoFork
    /\ tk = NoWrap
    /\ faults = 0
    /\ jobMode \in Modes
    /\ RemoteAtRest
    /\ WriterAtRest
    /\ WorkerAtRest
    /\ ExecutorAtRest

\* listReplicatedVms(xapi, scheduleId, srId, vmUuid), before the sort
ListReplicatedVms(all, scheduleId) ==
    {object \in all : /\ object.blocked
                      /\ object.sched = scheduleId
                      /\ object.sr
                      /\ object.vm \in {1, 0}}

\* the SR target is called: forkExport, oldVms, deleteFirst, up to its first
\* await
SrStart(k, s, df) ==
    /\ sr.pc \in {"idle", "done", "failed"}
    /\ sr.pending = {}
    /\ sr.n < MaxRuns
    /\ LET l == ListReplicatedVms(sr.vms, s)
           old == Range(GetOldEntries(k, SortBySnapshotTime(l)))
       IN sr' = [NoSr EXCEPT !.pc = IF df THEN "delete" ELSE "import",
                             !.n = sr.n + 1, !.vms = sr.vms, !.eR = k,
                             !.sched = s, !.deleteFirst = df, !.listed = l,
                             !.oldVms = old, !.dels = IF df THEN old ELSE {}]
    /\ Succeeds

\* _deleteVms: asyncMap(vms, vm => xapi.deleteVm(vm)), one call settles
SrDeleteVm(v) ==
    /\ sr.pc = "delete"
    /\ v \in sr.dels
    /\ \/ sr' = [sr EXCEPT !.dels = @ \ {v}, !.vms = @ \ {v}] /\ Succeeds
       \/ sr' = [sr EXCEPT !.dels = @ \ {v}, !.failed = TRUE] /\ Fails

\* xapi._importVm / xapi.importDeltaVm: the new VM is made from the export of
\* the snapshot of the run, of which it has the snapshot_time and other_config
SrImportVm ==
    /\ sr.pc = "import"
    /\ \/ /\ sr' = [sr EXCEPT !.pc = "update", !.vm = sr.n,
                               !.pending = {"addTag", "blocked_operations", "other_config"},
                               !.vms = @ \cup {[ts |-> sr.n, sched |-> sr.sched, vm |-> 1,
                                                sr |-> FALSE, blocked |-> FALSE]}]
          /\ Succeeds
       \/ sr' = [sr EXCEPT !.pc = "failed"] /\ Fails

\* the VM imported by the current target
Imported == CHOOSE v \in sr.vms : v.ts = sr.vm

\* a plausible slip: the imported VM is not marked with the SR
SrUpdateWithoutSr(o) ==
    /\ o \in sr.pending
    /\ \/ /\ sr' = [sr EXCEPT
                       !.pending = @ \ {o},
                       !.vms = IF o = "blocked_operations"
                               THEN (@ \ {Imported}) \cup {[Imported EXCEPT !.blocked = TRUE]}
                               ELSE @]
          /\ Succeeds
       \/ sr' = [sr EXCEPT !.pending = @ \ {o}, !.pc = "failed"] /\ Fails

\* Promise.all([addTag, blocked_operations.start, other_config 'xo:backup:sr']):
\* one of the calls settles; the first rejection rejects the target while the
\* other calls go on
SrUpdate(o) ==
    /\ o \in sr.pending
    /\ \/ /\ sr' = [sr EXCEPT
                       !.pending = @ \ {o},
                       !.vms = IF o = "blocked_operations"
                               THEN (@ \ {Imported}) \cup {[Imported EXCEPT !.blocked = TRUE]}
                               ELSE IF o = "other_config"
                               THEN (@ \ {Imported}) \cup {[Imported EXCEPT !.sr = TRUE]}
                               ELSE @]
          /\ Succeeds
       \/ sr' = [sr EXCEPT !.pending = @ \ {o}, !.pc = "failed"] /\ Fails

\* await this._deleteVms(...) or await Promise.all([...]) returns or throws
SrSettled ==
    /\ \/ sr.pc = "delete" /\ sr.dels = {}
       \/ sr.pc = "update" /\ sr.pending = {}
    /\ sr' = [sr EXCEPT
                !.pc = IF sr.failed THEN "failed"
                       ELSE IF sr.pc = "delete"
                       THEN (IF sr.vm = 0 THEN "import" ELSE "done")
                       ELSE (IF sr.deleteFirst THEN "done" ELSE "delete"),
                !.dels = IF sr.pc = "update" /\ ~sr.deleteFirst THEN sr.oldVms ELSE @]
    /\ Succeeds

NextSr ==
    \/ /\ \E k \in 1..MaxRetention, s \in Schedules, df \in BOOLEAN : SrStart(k, s, df)
       /\ UNCHANGED <<rvars, svars, wvars, evars, fk, tk, qvars>>
    \/ (\E v \in sr.dels : SrDeleteVm(v)) /\ UNCHANGED <<rvars, svars, wvars, evars, fk, tk, qvars>>
    \/ SrImportVm /\ UNCHANGED <<rvars, svars, wvars, evars, fk, tk, qvars>>
    \/ (\E o \in sr.pending : SrUpdate(o)) /\ UNCHANGED <<rvars, svars, wvars, evars, fk, tk, qvars>>
    \/ SrSettled /\ UNCHANGED <<rvars, svars, wvars, evars, fk, tk, qvars>>

SpecSr == InitSr /\ [][NextSr]_vars

(***************************************************************************)
(* Properties of an SR                                                     *)
(***************************************************************************)
\* C30: after a successful SR target with exportRetention k >= 1, the VMs
\* that listReplicatedVms finds on the SR for the schedule and VM of the run
\* are min(k, n + 1) in number, n being the number found before the import;
\* the VM imported by the run is one of them and was never selected.
C30_ReplicasWithinRetention ==
    sr.pc = "done" =>
        LET kept == ListReplicatedVms(sr.vms, sr.sched)
        IN /\ Cardinality(kept) = Min(sr.eR, Cardinality(sr.listed) + 1)
           /\ Cardinality(kept) <= sr.eR
           /\ Imported \in kept
           /\ Imported \notin sr.oldVms
           /\ kept \subseteq (sr.listed \ sr.oldVms) \cup {Imported}

C30_Witness ==
    /\ sr.pc = "done"
    /\ sr.eR = 2
    /\ Cardinality(sr.listed) >= 2
    /\ Cardinality(ListReplicatedVms(sr.vms, sr.sched)) = 2
    /\ \E v \in sr.vms : ~v.blocked

(***************************************************************************)
(* SpecStrip: the start of _backupVm on the VMs of a job, each carrying    *)
(* any of the three backup keys in its other_config (a VM reverted to or   *)
(* copied from a backup snapshot carries them, and other_config can be     *)
(* edited).  st[v] is                                                      *)
(*   pc         : "start", "snapshot" (tags handled, snapshot to take),    *)
(*                "snapshotted", "thrown"                                  *)
(*   oc         : the backup keys in the other_config of the live VM       *)
(*   atSnapshot : the keys the live VM carried when it was snapshotted     *)
(***************************************************************************)
BackupKeys == {"xo:backup:job", "xo:backup:schedule", "xo:backup:vm"}

\* the engine proper at rest
EngineAtRest ==
    /\ jobMode = "full"
    /\ RemoteAtRest
    /\ WriterAtRest
    /\ WorkerAtRest
    /\ ExecutorAtRest
    /\ fk = NoFork
    /\ tk = NoWrap
    /\ sr = NoSr

InitStrip ==
    /\ EngineAtRest
    /\ fx = NoForkExport
    /\ ls = NoList
    /\ lg = NoLogs
    /\ dj = NoDeleteJob
    /\ faults = 0
    /\ st \in [Vms -> [pc : {"start"}, oc : SUBSET BackupKeys, atSnapshot : {{}}]]

\* if ('xo:backup:job' in vm.other_config) await xapi._updateObjectMapProperty(
\*   vm, 'other_config', { the three keys: null })
StripTags(v) ==
    /\ st[v].pc = "start"
    /\ IF "xo:backup:job" \in st[v].oc
         THEN \/ /\ Succeeds
                 /\ st' = [st EXCEPT ![v].pc = "snapshot", ![v].oc = @ \ BackupKeys]
              \/ /\ Fails
                 /\ st' = [st EXCEPT ![v].pc = "thrown"]
         ELSE /\ Succeeds
              /\ st' = [st EXCEPT ![v].pc = "snapshot"]

\* xapi._snapshotVm($cancelToken, vm, ...): the snapshot is a copy of the VM,
\* other_config included
SnapshotLiveVm(v) ==
    /\ st[v].pc = "snapshot"
    /\ \/ /\ Succeeds
          /\ st' = [st EXCEPT ![v].pc = "snapshotted", ![v].atSnapshot = st[v].oc]
       \/ /\ Fails
          /\ st' = [st EXCEPT ![v].pc = "thrown"]

StripOnly == UNCHANGED <<rvars, svars, wvars, evars, fk, tk, sr, fx, ls, lg, dj>>

NextStrip ==
    \/ (\E v \in Vms : StripTags(v)) /\ StripOnly
    \/ (\E v \in Vms : SnapshotLiveVm(v)) /\ StripOnly

SpecStrip == InitStrip /\ [][NextStrip]_vars

\* C35: when the snapshot of a run is taken, the live VM carries none of
\* xo:backup:job, xo:backup:schedule, xo:backup:vm in its other_config,
\* whichever of the three it carried before the run.
C35_NoBackupTagAtSnapshot ==
    \A v \in DOMAIN st :
        st[v].pc = "snapshotted" => st[v].atSnapshot \cap BackupKeys = {}

(***************************************************************************)
(* SpecForkExport: the export of one run of _backupVm and forkExport.      *)
(*   fx.mode, fx.n : job.mode and nTargets of the run                      *)
(*   fx.opened     : calls of xapi.exportVm / xapi.exportDeltaVm           *)
(*   fx.started    : stream -> number of times the underlying stream has   *)
(*                   been started (the XVA stream by exportVm, the stream  *)
(*                   of a VDI by its lazyStream())                         *)
(*   fx.made       : number of PassThrough forks created so far            *)
(*   fx.pool       : stream -> the forks made at the export, not yet taken *)
(*   fx.got        : target -> stream -> what the target reads             *)
(*   fx.thrown     : the targets that have thrown                          *)
(* A stream is 0 (the XVA of a full export) or a VDI of the delta export.  *)
(* What a target reads is [id, task]: id > 0 is a fork (a PassThrough of   *)
(* its own), id < 0 the underlying stream itself; task is the task handle  *)
(* it exposes.  A target takes each stream once.                           *)
(***************************************************************************)
NumStreams == 3

DeltaStreams == 1..NumStreams

StreamsOf(mode) == IF mode = "full" THEN {0} ELSE DeltaStreams

\* exportTask = xva.task; stream.task of the stream of a VDI
TaskOf(d) == 100 + d

NoStream == [id |-> 0, task |-> 0]

\* a plausible slip: one fork of the stream, put nTargets times in the array
NewForksShared(nTargets, made, d) ==
    [i \in 1..nTargets |-> [id |-> made + 1, task |-> TaskOf(d)]]

\* Array.from({ length: nTargets }, _ => pStream.then(stream => {
\*   fork = stream.pipe(new PassThrough()); fork.task = stream.task }))
NewForks(nTargets, made, d) ==
    [i \in 1..nTargets |-> [id |-> made + i, task |-> TaskOf(d)]]

InitForkExport ==
    /\ EngineAtRest
    /\ faults = 0
    /\ st = NoStrip
    /\ ls = NoList
    /\ lg = NoLogs
    /\ dj = NoDeleteJob
    /\ fx = NoForkExport

\* xapi.exportVm / xapi.exportDeltaVm, then the definition of forkExport:
\* in delta mode with several targets every lazyStream is called there
OpenExport(mode, nTargets) ==
    /\ fx.pc = "idle"
    /\ \/ /\ Succeeds
          /\ fx' =
               [pc |-> "targets", mode |-> mode, n |-> nTargets,
                opened |-> fx.opened + 1,
                started |-> [d \in StreamsOf(mode) |->
                               IF mode = "full" \/ nTargets # 1 THEN 1 ELSE 0],
                made |-> IF mode = "delta" /\ nTargets # 1
                           THEN nTargets * NumStreams ELSE 0,
                pool |-> [d \in StreamsOf(mode) |->
                            IF mode = "delta" /\ nTargets # 1
                              THEN NewForks(nTargets, (d - 1) * nTargets, d)
                              ELSE <<>>],
                got |-> [t \in 1..nTargets |->
                           [d \in StreamsOf(mode) |-> NoStream]],
                thrown |-> {}]
       \/ /\ Fails
          /\ fx' = [fx EXCEPT !.pc = "thrown", !.opened = @ + 1]

\* a target takes a stream: fork = forkExport() of the full mode,
\* fork.streams[`${id}.vhd`]() of the delta mode
TakeStream(t, d) ==
    /\ fx.pc = "targets"
    /\ t \in DOMAIN fx.got \ fx.thrown
    /\ d \in StreamsOf(fx.mode)
    /\ fx.got[t][d] = NoStream
    /\ Succeeds
    /\ IF fx.mode = "full"
         THEN fx' = [fx EXCEPT !.made = @ + 1,
                               !.got[t][d] = [id |-> fx.made + 1, task |-> TaskOf(d)]]
         ELSE IF fx.n = 1
           THEN fx' = [fx EXCEPT !.started[d] = @ + 1,
                                 !.got[t][d] = [id |-> -d, task |-> TaskOf(d)]]
           ELSE fx' = [fx EXCEPT !.pool[d] = SubSeq(@, 1, Len(@) - 1),
                                 !.got[t][d] = fx.pool[d][Len(fx.pool[d])]]

\* a target throws before it has taken all its streams
TargetThrows(t) ==
    /\ fx.pc = "targets"
    /\ t \in DOMAIN fx.got \ fx.thrown
    /\ \E d \in StreamsOf(fx.mode) : fx.got[t][d] = NoStream
    /\ Fails
    /\ fx' = [fx EXCEPT !.thrown = @ \cup {t}]

ForkExportOnly ==
    UNCHANGED <<rvars, svars, wvars, evars, fk, tk, sr, st, ls, lg, dj>>

NextForkExport ==
    \/ (\E mode \in Modes, nTargets \in 1..NumTargets : OpenExport(mode, nTargets))
           /\ ForkExportOnly
    \/ (\E t \in Targets, d \in {0} \cup DeltaStreams : TakeStream(t, d)) /\ ForkExportOnly
    \/ (\E t \in Targets : TargetThrows(t)) /\ ForkExportOnly

SpecForkExport == InitForkExport /\ [][NextForkExport]_vars

\* C34: with more than one target the export is opened once and every
\* underlying stream is started exactly once; each target has a fork of its
\* own of each stream it has taken, and every fork exposes the task handle
\* of the stream it forks.
C34_ForksOfOneExport ==
    (fx.pc = "targets" /\ fx.n > 1) =>
        /\ fx.opened = 1
        /\ \A d \in StreamsOf(fx.mode) :
              /\ fx.started[d] = 1
              /\ \A t \in DOMAIN fx.got :
                    fx.got[t][d].id # 0 =>
                        /\ fx.got[t][d].id > 0
                        /\ fx.got[t][d].task = TaskOf(d)
                        /\ \A u \in DOMAIN fx.got \ {t} :
                              fx.got[u][d].id # fx.got[t][d].id

C34_Witness ==
    /\ fx.pc = "targets" /\ fx.n > 1 /\ fx.mode = "delta"
    /\ \A t \in DOMAIN fx.got : \A d \in DeltaStreams : fx.got[t][d].id > 0

(***************************************************************************)
(* SpecList: listVmBackupsNg on one remote.                                *)
(*   ls.root    : the directory xo-vm-backups exists on the remote         *)
(*   ls.dirs    : entry of xo-vm-backups -> [kind, jsons]; the kind is     *)
(*                "dir" (a VM directory, with its sidecars), "file" (not a *)
(*                directory) or "gone" (removed since the root was listed) *)
(*   ls.pending : the entries whose _listVmBackups has not settled         *)
(*   ls.result  : backupsByVm of the remote                                *)
(* The sidecars of a directory are named after their timestamps, which     *)
(* therefore differ.                                                       *)
(***************************************************************************)
ListTimestamps == 1..MaxRetention

DirStates ==
    [kind : {"file", "gone"}, jsons : {{}}]
        \cup [kind : {"dir"}, jsons : SUBSET [ts : ListTimestamps]]

InitList ==
    /\ EngineAtRest
    /\ faults = 0
    /\ st = NoStrip
    /\ fx = NoForkExport
    /\ lg = NoLogs
    /\ dj = NoDeleteJob
    /\ \/ ls = [NoList EXCEPT !.dirs = [v \in Vms |-> [kind |-> "gone", jsons |-> {}]]]
       \/ \E dirs \in [Vms -> DirStates] : ls = [NoList EXCEPT !.root = TRUE, !.dirs = dirs]

\* handler.list(BACKUP_DIR).catch(ENOENT => [])
ListRoot ==
    /\ ls.pc = "idle"
    /\ IF ls.root
         THEN \/ Succeeds /\ ls' = [ls EXCEPT !.pc = "entries", !.pending = Vms]
              \/ Fails /\ ls' = [ls EXCEPT !.pc = "thrown"]
         ELSE Succeeds /\ ls' = [ls EXCEPT !.pc = "entries", !.pending = {}]

\* _listVmBackups(handler, vm): the sidecars of the directory sorted by
\* compareTimestamp, nothing when handler.list fails with ENOENT or ENOTDIR
ListVmBackups(v) ==
    IF ls.dirs[v].kind = "dir" THEN SortByTimestamp(ls.dirs[v].jsons) ELSE <<>>

\* entries.map(async vmUuid => ...): the VM is put in backupsByVm with its
\* backups unless it has none
ListVm(v) ==
    /\ ls.pc = "entries"
    /\ v \in ls.pending
    /\ \/ /\ Succeeds
          /\ LET backups == ListVmBackups(v)
             IN ls' = [ls EXCEPT
                         !.pending = @ \ {v},
                         !.result = IF Len(backups) = 0 THEN @
                                    ELSE [x \in DOMAIN @ \cup {v} |->
                                            IF x = v THEN backups ELSE @[x]]]
       \/ /\ Fails
          /\ ls' = [ls EXCEPT !.pc = "thrown"]

\* return backupsByVmByRemote
ListReturns ==
    /\ ls.pc = "entries"
    /\ ls.pending = {}
    /\ Succeeds
    /\ ls' = [ls EXCEPT !.pc = "returned"]

ListOnly == UNCHANGED <<rvars, svars, wvars, evars, fk, tk, sr, st, fx, lg, dj>>

NextList ==
    \/ ListRoot /\ ListOnly
    \/ (\E v \in Vms : ListVm(v)) /\ ListOnly
    \/ ListReturns /\ ListOnly

SpecList == InitList /\ [][NextList]_vars

\* C31: a missing xo-vm-backups directory, or a missing VM directory, makes
\* the listing empty for that remote or VM and never makes it fail; the
\* backups of a VM are returned in ascending order of timestamp.
C31_MissingIsEmptyAndSorted ==
    /\ ls.pc = "thrown" => faults > 0
    /\ (~ls.root /\ ls.pc = "returned") => DOMAIN ls.result = {}
    /\ \A v \in DOMAIN ls.dirs :
          (ls.pc \in {"entries", "returned"} /\ v \notin ls.pending
              /\ ls.dirs[v].kind # "dir") => v \notin DOMAIN ls.result
    /\ \A v \in DOMAIN ls.result :
          /\ Range(ls.result[v]) = ls.dirs[v].jsons
          /\ \A i, j \in 1..Len(ls.result[v]) :
                i < j => ls.result[v][i].ts < ls.result[v][j].ts

C31_Witness ==
    /\ ls.pc = "returned"
    /\ \E v \in Vms : ls.dirs[v].kind = "gone"
    /\ \E v \in DOMAIN ls.result : Len(ls.result[v]) = MaxRetention

(***************************************************************************)
(* SpecLogs: the 'jobs' log as the engine fills it, and getBackupNgLogs.   *)
(*   lg.raw   : the log; the id of an entry is its index, its time is in   *)
(*              milliseconds and never decreases: a task.end may come in   *)
(*              the millisecond of the entry before it                     *)
(*   lg.runId : the argument of getBackupNgLogs, 0 for undefined           *)
(*   lg.out   : its result, key -> the set of records of that key; the key *)
(*              "roots" is 0                                               *)
(* A record is [id, parentId, start, end, duration, status, result, error, *)
(* message]; a field that was never set is Undefined.                      *)
(***************************************************************************)
MaxEvents == 4

Undefined == -1

RootsKey == 0

JobTypes == {"backup", "call"}

Messages == {"merge", "transfer"}

Statuses == {"success", "failure"}

LastTime == IF lg.raw = <<>> THEN 0 ELSE lg.raw[Len(lg.raw)].time

StartedIds(raw) ==
    {i \in DOMAIN raw : raw[i].event \in {"job.start", "task.start"}}

OpenTasks(raw) ==
    {i \in DOMAIN raw :
        /\ raw[i].event = "task.start"
        /\ \A j \in DOMAIN raw : ~(raw[j].event = "task.end" /\ raw[j].taskId = i)}

OpenJobs(raw) ==
    {i \in DOMAIN raw :
        /\ raw[i].event = "job.start"
        /\ \A j \in DOMAIN raw : ~(raw[j].event = "job.end" /\ raw[j].runJobId = i)}

InitLogs ==
    /\ EngineAtRest
    /\ faults = 0
    /\ st = NoStrip
    /\ fx = NoForkExport
    /\ ls = NoList
    /\ lg = NoLogs
    /\ dj = NoDeleteJob

\* the logger appends an event, in the same millisecond as the one before
\* or later
Log(e, dt) ==
    /\ lg.pc = "logging"
    /\ Len(lg.raw) < MaxEvents
    /\ lg' = [lg EXCEPT !.raw = Append(@, [e EXCEPT !.time = LastTime + dt])]

\* job.start of a run, of a backup job or of another type of job
LogJobStart(type, dt) ==
    Log([event |-> "job.start", time |-> 0, type |-> type], dt)

\* job.end of a run
LogJobEnd(runJobId, dt) ==
    /\ runJobId \in OpenJobs(lg.raw)
    /\ Log([event |-> "job.end", time |-> 0, runJobId |-> runJobId,
            error |-> Len(lg.raw) + 1], dt)

\* logger.notice(message, { event: 'task.start', parentId, data })
LogTaskStart(parentId, message, dt) ==
    /\ parentId \in StartedIds(lg.raw)
    /\ Log([event |-> "task.start", time |-> 0, parentId |-> parentId,
            message |-> message], dt)

\* logger.notice / logger.error(message, { event: 'task.end', result, status,
\* taskId }): the result is a value of its own
LogTaskEnd(taskId, status, dt) ==
    /\ taskId \in OpenTasks(lg.raw)
    /\ Log([event |-> "task.end", time |-> 0, taskId |-> taskId,
            message |-> lg.raw[taskId].message, status |-> status,
            result |-> Len(lg.raw) + 1], dt)

Put(f, k, v) == [x \in DOMAIN f \cup {k} |-> IF x = k THEN v ELSE f[x]]

Drop(f, k) == [x \in DOMAIN f \ {k} |-> f[x]]

NewRecord(id, parentId, start, message) ==
    [id |-> id, parentId |-> parentId, start |-> start, message |-> message,
     end |-> Undefined, duration |-> Undefined, status |-> "undefined",
     result |-> Undefined, error |-> Undefined]

\* a plausible slip: the work-around is left out
FoldTaskEndKeepAll(logs, log) ==
    IF log.taskId \in DOMAIN logs
      THEN LET task == logs[log.taskId]
           IN Put(logs, log.taskId,
                  [task EXCEPT !.status = log.status, !.result = log.result,
                               !.end = log.time,
                               !.duration = log.time - task.start])
      ELSE logs

\* case 'task.end'
FoldTaskEnd(logs, log) ==
    IF log.taskId \in DOMAIN logs
      THEN LET task == logs[log.taskId]
           IN IF log.time = task.start /\ log.message \in {"merge", "tranfer"}
                THEN Drop(logs, log.taskId)
                ELSE Put(logs, log.taskId,
                         [task EXCEPT !.status = log.status, !.result = log.result,
                                      !.end = log.time,
                                      !.duration = log.time - task.start])
      ELSE logs

\* the body of forEach(rawLogs, (log, id) => { switch (event) ... })
FoldEvent(logs, log, id, runId) ==
    CASE log.event = "job.start" ->
           IF log.type = "backup" /\ (runId = 0 \/ runId = id)
             THEN Put(logs, id, NewRecord(id, Undefined, log.time, "undefined"))
             ELSE logs
      [] log.event = "job.end" ->
           IF log.runJobId \in DOMAIN logs
             THEN Put(logs, log.runJobId,
                      [logs[log.runJobId] EXCEPT
                          !.end = log.time,
                          !.duration = log.time - logs[log.runJobId].start,
                          !.error = log.error])
             ELSE logs
      [] log.event = "task.start" ->
           IF log.parentId \in DOMAIN logs
             THEN Put(logs, id, NewRecord(id, log.parentId, log.time, log.message))
             ELSE logs
      [] log.event = "task.end" -> FoldTaskEnd(logs, log)

RECURSIVE FoldLogs(_, _, _)
FoldLogs(raw, runId, n) ==
    IF n = 0 THEN <<>>
    ELSE FoldEvent(FoldLogs(raw, runId, n - 1), raw[n], n, runId)

\* groupBy(logs, log => log.parentId || 'roots')
GroupByParent(logs) ==
    LET key(r) == IF r.parentId = Undefined THEN RootsKey ELSE r.parentId
    IN [k \in {key(logs[i]) : i \in DOMAIN logs} |->
           {logs[i] : i \in {x \in DOMAIN logs : key(logs[x]) = k}}]

GetBackupNgLogs(runId) ==
    /\ lg.pc = "logging"
    /\ runId = 0 \/ runId \in DOMAIN lg.raw
    /\ lg' = [lg EXCEPT !.pc = "consolidated", !.runId = runId,
                        !.out = GroupByParent(FoldLogs(lg.raw, runId, Len(lg.raw)))]

LogsOnly ==
    UNCHANGED <<rvars, faults, svars, wvars, evars, fk, tk, sr, st, fx, ls, dj>>

NextLogs ==
    \/ (\E type \in JobTypes : LogJobStart(type, 1)) /\ LogsOnly
    \/ (\E id \in 1..MaxEvents : LogJobEnd(id, 1)) /\ LogsOnly
    \/ (\E id \in 1..MaxEvents, message \in Messages :
           LogTaskStart(id, message, 1)) /\ LogsOnly
    \/ (\E id \in 1..MaxEvents, status \in Statuses, dt \in 0..1 :
           LogTaskEnd(id, status, dt)) /\ LogsOnly
    \/ (\E runId \in 0..MaxEvents : GetBackupNgLogs(runId)) /\ LogsOnly

SpecLogs == InitLogs /\ [][NextLogs]_vars

\* the records of the result, and the one of an id
C36_Records == UNION {lg.out[k] : k \in DOMAIN lg.out}

C36_HasRecord(id) == \E r \in C36_Records : r.id = id

C36_RecordOf(id) == CHOOSE r \in C36_Records : r.id = id

\* the run an entry belongs to: the job.start at the root of its tree
RECURSIVE C36_RunOf(_, _)
C36_RunOf(raw, id) ==
    IF raw[id].event = "job.start" THEN id ELSE C36_RunOf(raw, raw[id].parentId)

\* the task.end / job.end of an entry, if any
C36_EndsOf(raw, id) ==
    {j \in DOMAIN raw :
        \/ raw[j].event = "task.end" /\ raw[j].taskId = id
        \/ raw[j].event = "job.end" /\ raw[j].runJobId = id}

\* a task whose task.end has the time of its task.start and the message
\* 'merge' (or 'tranfer')
C36_Degenerate(raw, id) ==
    /\ raw[id].event = "task.start"
    /\ \E j \in C36_EndsOf(raw, id) :
          raw[j].time = raw[id].time /\ raw[j].message \in {"merge", "tranfer"}

\* the entries whose record is expected: the backup runs (the run asked for)
\* and the tasks under an entry that has a record
C36_Expected(raw, runId, id) ==
    \/ /\ raw[id].event = "job.start"
       /\ raw[id].type = "backup"
       /\ runId = 0 \/ runId = id
    \/ /\ raw[id].event = "task.start"
       /\ C36_HasRecord(raw[id].parentId)

\* the record of an entry holds what its start and its end have logged and
\* stands under its parent
C36_RecordFolded(raw, id) ==
    LET r == C36_RecordOf(id)
    IN /\ r.start = raw[id].time
       /\ r \in lg.out[IF raw[id].event = "job.start" THEN RootsKey
                       ELSE raw[id].parentId]
       /\ \A j \in C36_EndsOf(raw, id) :
             /\ r.end = raw[j].time
             /\ r.duration = raw[j].time - raw[id].time
             /\ raw[j].event = "task.end" =>
                   r.status = raw[j].status /\ r.result = raw[j].result
             /\ raw[j].event = "job.end" => r.error = raw[j].error
       /\ C36_EndsOf(raw, id) = {} => r.end = Undefined /\ r.status = "undefined"

\* C36 as stated: every task.start under a recorded parent, and every
\* job.start of a backup run, has a record in the result, folded with its
\* end and grouped under its parent ("roots" for the runs); with a run id
\* only the records of that run appear.
C36_FoldAsStated ==
    lg.pc = "consolidated" =>
        /\ \A id \in StartedIds(lg.raw) :
              C36_Expected(lg.raw, lg.runId, id) =>
                  C36_HasRecord(id) /\ C36_RecordFolded(lg.raw, id)
        /\ \A r \in C36_Records : lg.runId # 0 => C36_RunOf(lg.raw, r.id) = lg.runId

\* C36, amended: the same, but a task whose task.end carries the time of its
\* task.start and the message 'merge' (or 'tranfer') has no record.
C36_FoldButDegenerate ==
    lg.pc = "consolidated" =>
        /\ \A id \in StartedIds(lg.raw) :
              C36_Expected(lg.raw, lg.runId, id) =>
                  IF C36_Degenerate(lg.raw, id) THEN ~C36_HasRecord(id)
                  ELSE C36_HasRecord(id) /\ C36_RecordFolded(lg.raw, id)
        /\ \A r \in C36_Records :
              /\ r.id \in StartedIds(lg.raw)
              /\ lg.runId # 0 => C36_RunOf(lg.raw, r.id) = lg.runId

C36_Witness ==
    /\ lg.pc = "consolidated" /\ lg.runId # 0
    /\ \E id \in StartedIds(lg.raw) :
          /\ C36_Expected(lg.raw, lg.runId, id)
          /\ C36_Degenerate(lg.raw, id)
    /\ \E r \in C36_Records : r.parentId = Undefined /\ r.duration > 0

(***************************************************************************)
(* SpecDeleteJob: deleteBackupNgJob on the jobs and schedules of xo-server *)
(*   dj.jobs      : the ids of the backup jobs                             *)
(*   dj.schedules : the schedules, [id, jobId]                             *)
(*   dj.id        : the argument of the current call                       *)
(*   dj.listed    : the result of app.getAllSchedules() in the call        *)
(* Jobs and schedules are two collections whose ids are generated apart:   *)
(* no schedule has the id of a job.                                        *)
(***************************************************************************)
NumJobs == 2

NumJobSchedules == 3

JobIds == 1..NumJobs

ScheduleIds == {100 + k : k \in 1..NumJobSchedules}

InitDeleteJob ==
    /\ EngineAtRest
    /\ faults = 0
    /\ st = NoStrip
    /\ fx = NoForkExport
    /\ ls = NoList
    /\ lg = NoLogs
    /\ \E jobs \in SUBSET JobIds, ids \in SUBSET ScheduleIds :
          \E jobId \in [ids -> JobIds] :
              dj = [NoDeleteJob EXCEPT
                      !.jobs = jobs,
                      !.schedules = {[id |-> i, jobId |-> jobId[i]] : i \in ids}]

\* deleteBackupNgJob(id) is called
DeleteBackupNgJob(id) ==
    /\ dj.pc \in {"idle", "resolved", "rejected"}
    /\ dj' = [dj EXCEPT !.pc = "get", !.id = id, !.listed = {}]
    /\ Succeeds

\* Promise.all([app.getAllSchedules(), app.getJob(id, 'backup')]): getJob
\* rejects when there is no such job
GetSchedulesAndJob ==
    /\ dj.pc = "get"
    /\ IF dj.id \in dj.jobs
         THEN \/ Succeeds /\ dj' = [dj EXCEPT !.pc = "remove", !.listed = dj.schedules]
              \/ Fails /\ dj' = [dj EXCEPT !.pc = "rejected"]
         ELSE Succeeds /\ dj' = [dj EXCEPT !.pc = "rejected"]

\* the schedules the callback of asyncMap calls app.deleteSchedule on
SchedulesToDelete(schedules, id) == {schedule \in schedules : schedule.id = id}

\* Promise.all([app.removeJob(id), asyncMap(schedules, ...)])
RemoveJobAndSchedules ==
    /\ dj.pc = "remove"
    /\ \/ /\ Succeeds
          /\ dj' = [dj EXCEPT
                      !.pc = "resolved",
                      !.jobs = @ \ {dj.id},
                      !.schedules = @ \ SchedulesToDelete(dj.listed, dj.id)]
       \/ /\ Fails
          /\ dj' = [dj EXCEPT
                      !.pc = "rejected",
                      !.schedules = @ \ SchedulesToDelete(dj.listed, dj.id)]

DeleteJobOnly == UNCHANGED <<rvars, svars, wvars, evars, fk, tk, sr, st, fx, ls, lg>>

NextDeleteJob ==
    \/ (\E id \in JobIds : DeleteBackupNgJob(id)) /\ DeleteJobOnly
    \/ GetSchedulesAndJob /\ DeleteJobOnly
    \/ RemoveJobAndSchedules /\ DeleteJobOnly

SpecDeleteJob == InitDeleteJob /\ [][NextDeleteJob]_vars

\* C40: after deleteBackupNgJob(id) has completed successfully, the job is
\* removed and no schedule whose jobId is id remains.
C40_JobAndItsSchedulesRemoved ==
    dj.pc = "resolved" =>
        /\ dj.id \notin dj.jobs
        /\ \A schedule \in dj.schedules : schedule.jobId # dj.id

====
